---- MODULE Spec2Model ----
(***************************************************************************)
(* A model of the pdf-toc-extractor scripts: heading detection             *)
(* (heading_detector.py), hierarchy assignment and tree building           *)
(* (toc_generator.py), TOC page analysis (toc_page_analyzer.py), line      *)
(* pattern matching (toc_pattern_matcher.py) and the page-detection driver *)
(* (extract_toc.py).                                                       *)
(*                                                                         *)
(* Conventions.                                                            *)
(*  - A Python str is a sequence of one-character strings.  NBSP stands   *)
(*    for the single character U+00A0.                                     *)
(*  - A confidence is an exact integer number of millionths (0.6 is        *)
(*    600000); the factor scores and weights of the heading detector are   *)
(*    in thousandths, so that a weighted score is in millionths.  Font     *)
(*    sizes and coordinates are whole points; font statistics are in       *)
(*    thousandths of a point, rounded down.                                *)
(*  - Python's None, where an int may stand, is the number None, which no  *)
(*    int of the model equals.                                             *)
(*  - A detection_method string is the sequence of the method names that   *)
(*    the code joins with '|' ('unknown' is <<"unknown">>).                *)
(*  - A dict is a record; a key that may be absent is tested with          *)
(*    Has(d, k), as dict.get does.                                         *)
(***************************************************************************)
EXTENDS Integers, Sequences, FiniteSets, TLC

None == -1000000

Has(d, k) == k \in DOMAIN d
Get(d, k, default) == IF k \in DOMAIN d THEN d[k] ELSE default

Min(a, b) == IF a <= b THEN a ELSE b
Max(a, b) == IF a >= b THEN a ELSE b
\* A bound variable holds a value, an operator argument or a LET name an
\* expression that is computed at each use: the operators below bind what
\* they use more than once (x \in {e}).
SetMax(S) == CHOOSE m \in {(CHOOSE x \in T : \A y \in T : y <= x) : T \in {S}} : TRUE
SetMin(S) == CHOOSE m \in {(CHOOSE x \in T : \A y \in T : x <= y) : T \in {S}} : TRUE

(***************************************************************************)
(* Characters and the str methods the scripts use.                         *)
(***************************************************************************)
NBSP == "nbsp"
\* U+202F, the narrow no-break space
NNBSP == "nnbsp"
UpperSeq == <<"A","B","C","D","E","F","G","H","I","J","K","L","M",
              "N","O","P","Q","R","S","T","U","V","W","X","Y","Z">>
LowerSeq == <<"a","b","c","d","e","f","g","h","i","j","k","l","m",
              "n","o","p","q","r","s","t","u","v","w","x","y","z">>
Upper == {UpperSeq[i] : i \in 1..26}
Lower == {LowerSeq[i] : i \in 1..26}
Digit == {"0","1","2","3","4","5","6","7","8","9"}
WS == {" ", "\t", "\n", NBSP, NNBSP}
WordCh == Upper \cup Lower \cup Digit \cup {"_"}
Punct == {".", "-", "(", ")", "?", "!", ":", ";", ",", "*", "+"}
\* every character but the line break: what "." matches
Dot == (Upper \cup Lower \cup Digit \cup Punct \cup WS \cup {"_"}) \ {"\n"}

LowerCh(c) == IF c \in Upper THEN LowerSeq[CHOOSE i \in 1..26 : UpperSeq[i] = c] ELSE c
UpperCh(c) == IF c \in Lower THEN UpperSeq[CHOOSE i \in 1..26 : LowerSeq[i] = c] ELSE c

\* str.lower()
StrLower(s) == [i \in 1..Len(s) |-> LowerCh(s[i])]

\* s[a:b] for 0 <= a, with Python's clipping of b
Slice(s, a, b) == IF Min(b, Len(s)) <= a THEN <<>> ELSE SubSeq(s, a + 1, Min(b, Len(s)))

\* str.strip(), str.lstrip()
LStripCount(s) ==
  IF \A i \in 1..Len(s) : s[i] \in WS THEN Len(s)
  ELSE (CHOOSE i \in 1..Len(s) : s[i] \notin WS /\ \A j \in 1..(i-1) : s[j] \in WS) - 1
RStripCount(s) ==
  IF \A i \in 1..Len(s) : s[i] \in WS THEN Len(s)
  ELSE Len(s) - (CHOOSE i \in 1..Len(s) : s[i] \notin WS /\ \A j \in (i+1)..Len(s) : s[j] \in WS)
StrLStrip(s) == CHOOSE r \in {Slice(t, LStripCount(t), Len(t)) : t \in {s}} : TRUE
StrStrip(s) ==
  CHOOSE r \in {(IF \A i \in 1..Len(t) : t[i] \in WS THEN <<>>
                 ELSE SubSeq(t, LStripCount(t) + 1, Len(t) - RStripCount(t))) :
                t \in {s}} : TRUE

\* len(s.split()): the number of maximal runs of non-whitespace
WordCount(s) ==
  Cardinality({i \in 1..Len(s) : s[i] \notin WS /\ (i = 1 \/ s[i-1] \in WS)})

\* s.count(c)
CountCh(s, c) == Cardinality({i \in 1..Len(s) : s[i] = c})

\* str.isupper(): a cased character exists and none is lowercase
IsUpper(s) ==
  /\ \E i \in 1..Len(s) : s[i] \in Upper
  /\ \A i \in 1..Len(s) : s[i] \notin Lower

\* str.istitle(): uppercase only after an uncased character, lowercase only
\* after a cased one, and at least one cased character
IsTitle(s) ==
  /\ \E i \in 1..Len(s) : s[i] \in Upper \cup Lower
  /\ \A i \in 1..Len(s) :
       LET prevCased == i > 1 /\ s[i-1] \in Upper \cup Lower
       IN  /\ s[i] \in Upper => ~prevCased
           /\ s[i] \in Lower => prevCased

\* str.title(): first letter of each run of letters upper, the rest lower
StrTitle(s) ==
  [i \in 1..Len(s) |->
     IF i > 1 /\ s[i-1] \in Upper \cup Lower THEN LowerCh(s[i]) ELSE UpperCh(s[i])]

\* needle in hay
IsSubstr(needle, hay) ==
  \E p \in 0..(Len(hay) - Len(needle)) : SubSeq(hay, p + 1, p + Len(needle)) = needle

\* the sequence s without the elements that are not in keep
SeqFilter(s, keep) ==
  CHOOSE r \in
    {[n \in 1..Cardinality({i \in 1..Len(t) : t[i] \in K}) |->
        t[CHOOSE i \in 1..Len(t) :
            /\ t[i] \in K
            /\ Cardinality({j \in 1..(i - 1) : t[j] \in K}) = n - 1]] :
     t \in {s}, K \in {keep}} : TRUE

(***************************************************************************)
(* Python's re on the patterns the scripts compile.  A pattern is a        *)
(* sequence of atoms; an atom repeats lo..hi times either a character      *)
(* class (t = "set") or an alternation of sub-patterns (t = "grp").        *)
(* Patterns anchored with ^ start at position 0; patterns ending in $ must *)
(* end at Len(s) (the strings matched here never end in a line break).     *)
(***************************************************************************)
Inf == 1000

Cls(cs, lo, hi) == [t |-> "set", cs |-> cs, lo |-> lo, hi |-> hi, lazy |-> FALSE]
LazyCls(cs, lo, hi) == [t |-> "set", cs |-> cs, lo |-> lo, hi |-> hi, lazy |-> TRUE]
Grp(alts, lo, hi) == [t |-> "grp", alts |-> alts, lo |-> lo, hi |-> hi, lazy |-> FALSE]
Ch(c) == Cls({c}, 1, 1)
\* a literal word, one atom per character
Lit(w) == [i \in 1..Len(w) |-> Ch(w[i])]

\* whether character c is in class cs, under re.IGNORECASE when ic
ChIn(c, cs, ic) == c \in cs \/ (ic /\ (LowerCh(c) \in cs \/ UpperCh(c) \in cs))

\* the positions where pattern re can end when it starts at a position of P
RECURSIVE Ends(_, _, _, _), RepEnds(_, _, _, _, _), RunLen(_, _, _, _, _)
\* (s, P and the atoms are values where these three are used)
\* how many characters of class cs follow position p of s, counted up to hi
RunLen(s, p, cs, ic, hi) ==
  IF hi > 0 /\ p < Len(s) /\ ChIn(s[p + 1], cs, ic)
  THEN 1 + RunLen(s, p + 1, cs, ic, hi - 1) ELSE 0
Ends(re, s, P, ic) ==
  IF re = <<>> \/ P = {} THEN P
  ELSE UNION {Ends(rest, s, after, ic) :
                rest \in {Tail(re)},
                after \in {(IF a.t = "set"
                            THEN UNION {{p + k : k \in a.lo..RunLen(s, p, a.cs, ic, a.hi)} :
                                          p \in P}
                            ELSE RepEnds(a, s, P, ic, 0)) : a \in {Head(re)}}}
\* the positions after n, n+1, ... repetitions of group a, counted from a.lo
RepEnds(a, s, P, ic, n) ==
  IF P = {} \/ n > a.hi \/ n > Len(s) + 1 THEN {}
  ELSE (IF n >= a.lo THEN P ELSE {})
       \cup UNION {RepEnds(a, s, Q, ic, m) :
                     Q \in {UNION {Ends(a.alts[i], s, P, ic) : i \in 1..Len(a.alts)}},
                     m \in {n + 1}}

\* pattern.match(s) for a pattern written ^...$ (or matched to the end)
FullMatch(re, s, ic) == \E r \in {re}, t \in {s} : Len(t) \in Ends(r, t, {0}, ic)
\* pattern.match(s) / re.match for a pattern with no $: a prefix matches
PrefixMatch(re, s, ic) == \E r \in {re}, t \in {s} : Ends(r, t, {0}, ic) # {}
\* pattern.search(s) for a pattern with neither ^ nor $
SearchAny(re, s, ic) == \E r \in {re}, t \in {s} : Ends(r, t, 0..Len(t), ic) # {}

\* The end position of every atom of re in the match the backtracking
\* matcher finds for ^re$ on s from position p: each atom takes the longest
\* (greedy) or shortest (lazy) run that lets the rest of the pattern match.
RECURSIVE AtomEnds(_, _, _, _)
AtomEnds(re, s, p, ic) ==
  IF re = <<>> THEN <<>>
  ELSE CHOOSE r \in
         {<<q>> \o AtomEnds(rest, s, q, ic) :
            rest \in {Tail(re)},
            q \in {(IF a.lazy THEN SetMin(cand) ELSE SetMax(cand)) :
                     a \in {Head(re)},
                     cand \in {{e \in Ends(<<Head(re)>>, s, {p}, ic) :
                                  Len(s) \in Ends(Tail(re), s, {e}, ic)}}}} : TRUE

\* match.group(g) where group g spans atoms from..to of re; s fully matches
GroupText(re, s, ic, from, to) ==
  CHOOSE g \in
    {Slice(t, IF from = 1 THEN 0 ELSE e[from - 1], e[to]) :
       t \in {s}, e \in {AtomEnds(r, t, 0, ic) : r \in {re}, t \in {s}}} : TRUE

\* re.sub(pat, '', s, count=1) for a pattern anchored with ^: drop the
\* longest prefix pat matches (the patterns substituted are greedy)
DropPrefix(re, s, ic) ==
  CHOOSE d \in
    {(IF E = {} THEN t ELSE Slice(t, SetMax(E), Len(t))) :
       t \in {s}, E \in {Ends(r, t, {0}, ic) : r \in {re}, t \in {s}}} : TRUE

\* re.sub(r'\s+', ' ', s): every run of whitespace becomes one space
CollapseWS(s) ==
  CHOOSE c \in
    {[n \in 1..Len(k) |-> IF t[k[n]] \in WS THEN " " ELSE t[k[n]]] :
       t \in {s},
       k \in {SeqFilter([i \in 1..Len(t) |-> i],
                        {i \in 1..Len(t) : t[i] \notin WS \/ i = 1 \/ t[i - 1] \notin WS}) :
                t \in {s}}} : TRUE

\* int(s) for s made of ASCII digits
RECURSIVE DigitsValue(_)
DigitVal(c) == CHOOSE n \in 0..9 : <<"0","1","2","3","4","5","6","7","8","9">>[n + 1] = c
DigitsValue(s) ==
  IF s = <<>> THEN 0 ELSE 10 * DigitsValue(SubSeq(s, 1, Len(s) - 1)) + DigitVal(s[Len(s)])

\* The stable sort of positions 1..n under the set less of pairs <<i, j>>
\* whose key at i is below the key at j: position i comes before position j
\* when <<i, j>> is in less, or when neither is below the other and i < j
\* (Python's sorted()).  The result lists the positions in sorted order.
StableOrder(n, less) ==
  CHOOSE o \in
    {[r \in 1..m |->
        CHOOSE i \in 1..m :
          Cardinality({j \in 1..m : <<j, i>> \in L
                                      \/ (<<i, j>> \notin L /\ j < i)}) = r - 1] :
     m \in {n}, L \in {less}} : TRUE

(***************************************************************************)
(* toc_generator.py: TOCGenerator                                          *)
(***************************************************************************)
VARIABLES
  headings,    \* the caller's list of heading dicts, as passed to generate_toc
  max_level,   \* self.max_level
  gen_pc,      \* where generate_toc stands: "start", "sorted", "leveled",
               \* "built", "done" (returned) or "raised" (left by an exception)
  sorted_idx,  \* sorted_headings: the positions in headings of the dicts the
               \* working list holds (the same objects, not copies)
  tree,        \* the nested toc: one node per entry built, in build order,
               \* with the position of its parent node (0: top level)
  toc,         \* the list generate_toc returns
  text_data,             \* the elements passed to detect_headings
  confidence_threshold,  \* HeadingDetector.confidence_threshold
  det_pc,                \* "start" before detect_headings, "done" after
  det_font_stats,        \* font_stats, the local of detect_headings
  det_out,               \* the list detect_headings returned
  page_num,    \* the page token handed to _page_to_int and _parse_match
  pm_title,    \* the title group of the match handed to _parse_match
  pm_format,   \* the format_type handed to _parse_match
  pm_page,     \* what _page_to_int returned
  pm_entry,    \* what _parse_match returned: <<>> (None) or <<entry>>
  pm_pc,       \* "start", "resolved" (after _page_to_int), "parsed"
  pdf_pages,         \* page.extract_text() of each page of the PDF
  pg_threshold,      \* the threshold argument of detect_and_parse_toc_pages
  page_result,       \* a page and what _analyze_page_content returned for it
  results,           \* what analyze_pdf returned
  standard_entries,  \* the entries collected from the accepted results
  unique_entries,    \* the entries left by the removal of duplicates
  pg_out,            \* the list detect_and_parse_toc_pages returned
  pg_pc,             \* "start", "page", "analyzed", "collected", "deduped", "done", "raised"
  content_blocks,  \* the blocks of text handed to the pattern matcher
  adv_out,         \* what extract_entries_advanced returned
  ext_out,         \* what extract_entries returned
  mt_pc,           \* "start", "advanced", "extracted"
  cf_in,   \* the arguments of a confidence function, tagged with its name
  cf_out,  \* the confidence it returned, in millionths
  cf_pc,   \* "start", "done"
  val_toc,     \* the list handed to validate_toc_consistency
  val_report,  \* the report it returned
  val_pc,      \* "start", "done"
  pipe_run,    \* "first", or how the second run is made: "redetect", "regenerate"
  first_out,   \* how the first run ended and the list it returned
  ex_outline,              \* reader.outline of the PDF, or that reading it raises
  auto_detect_toc,         \* the argument of extract_pdf_toc
  toc_detection_available, \* TOC_DETECTION_AVAILABLE
  ex_bookmarks,            \* what extract_bookmarks returned
  ex_out,                  \* what extract_pdf_toc returned
  ex_pc,                   \* "start", "detecting", "done"
  merge_in,   \* the entries handed to _merge_overlapping_entries
  merge_out,  \* the entries it returned
  mg_pc       \* "start", "done"

genVars == <<headings, max_level, gen_pc, sorted_idx, tree, toc>>
detVars == <<text_data, confidence_threshold, det_pc, det_font_stats, det_out>>
pmVars == <<page_num, pm_title, pm_format, pm_page, pm_entry, pm_pc>>
pgVars == <<pdf_pages, pg_threshold, page_result, results, standard_entries, unique_entries,
            pg_out, pg_pc>>
mtVars == <<content_blocks, adv_out, ext_out, mt_pc>>
cfVars == <<cf_in, cf_out, cf_pc>>
valVars == <<val_toc, val_report, val_pc>>
runVars == <<pipe_run, first_out>>
exVars == <<ex_outline, auto_detect_toc, toc_detection_available, ex_bookmarks, ex_out, ex_pc>>
mgVars == <<merge_in, merge_out, mg_pc>>
vars == <<genVars, detVars, pmVars, pgVars, mtVars, cfVars, valVars, runVars, exVars, mgVars>>

DefaultMinConfidence == 700000
DefaultMaxLevel == 4

\* self.level_patterns, compiled with re.IGNORECASE and applied with search()
\* to the lowercased text; anchored tells a pattern written with ^
WordAlt(ws) == Grp([i \in 1..Len(ws) |-> Lit(ws[i])], 1, 1)
level_patterns ==
  << \* level 0
     << [re |-> Lit(<<"c","h","a","p","t","e","r">>) \o <<Cls(WS, 1, Inf), Cls(Digit, 1, Inf)>>,
         anchored |-> TRUE],
        [re |-> Lit(<<"p","a","r","t">>) \o <<Cls(WS, 1, Inf), Cls(WordCh, 1, Inf)>>,
         anchored |-> TRUE],
        [re |-> <<Cls({"I","V","X","L","C","D","M"}, 1, Inf), Cls(WS \cup {"."}, 1, 1)>>,
         anchored |-> TRUE],
        [re |-> <<Cls(Digit, 1, Inf), Cls(WS \cup {"."}, 1, 1)>>, anchored |-> TRUE],
        [re |-> <<WordAlt(<< <<"i","n","t","r","o","d","u","c","t","i","o","n">>,
                             <<"p","r","e","f","a","c","e">>,
                             <<"f","o","r","e","w","o","r","d">> >>)>>,
         anchored |-> TRUE] >>,
     \* level 1
     << [re |-> <<Cls(Digit, 1, Inf), Ch("."), Cls(Digit, 1, Inf)>>, anchored |-> TRUE],
        [re |-> Lit(<<"s","e","c","t","i","o","n">>) \o <<Cls(WS, 1, Inf), Cls(Digit, 1, Inf)>>,
         anchored |-> TRUE],
        [re |-> <<Cls(Upper, 1, 1), Ch("."), Cls(WS \cup {"."}, 1, 1)>>, anchored |-> TRUE],
        [re |-> <<Cls({"i"}, 1, Inf), Cls(WS \cup {"."}, 1, 1)>>, anchored |-> TRUE],
        [re |-> <<WordAlt(<< <<"o","v","e","r","v","i","e","w">>,
                             <<"b","a","c","k","g","r","o","u","n","d">> >>)>>,
         anchored |-> TRUE] >>,
     \* level 2
     << [re |-> <<Cls(Digit, 1, Inf), Ch("."), Cls(Digit, 1, Inf), Ch("."), Cls(Digit, 1, Inf)>>,
         anchored |-> TRUE],
        [re |-> <<Cls(Digit, 1, Inf), Ch("."), Cls(WS, 0, Inf), Cls(Lower, 1, 1)>>,
         anchored |-> TRUE],
        [re |-> <<Ch("("), Cls(Lower, 1, 1), Ch(")")>>, anchored |-> TRUE],
        [re |-> <<WordAlt(<< <<"s","u","b","s","e","c","t","i","o","n">>,
                             <<"s","u","b","h","e","a","d","i","n","g">> >>)>>,
         anchored |-> TRUE] >>,
     \* level 3
     << [re |-> <<Cls(Digit, 1, Inf), Ch("."), Cls(Digit, 1, Inf), Ch("."), Cls(Digit, 1, Inf),
                  Ch("."), Cls(Digit, 1, Inf)>>,
         anchored |-> TRUE],
        [re |-> <<Ch("-"), Cls(Dot, 0, Inf), Ch("-")>>, anchored |-> FALSE] >> >>

RegexSearch(pat, s) ==
  IF pat.anchored THEN PrefixMatch(pat.re, s, TRUE) ELSE SearchAny(pat.re, s, TRUE)

\* _match_numbering_pattern: the first level, in the order 0, 1, 2, 3, one of
\* whose patterns is found in text.lower(); None for the empty dict
MatchNumberingPattern(text) ==
  LET text_lower == StrLower(text)
      hit == {lv \in 1..Len(level_patterns) :
                \E k \in 1..Len(level_patterns[lv]) :
                   RegexSearch(level_patterns[lv][k], text_lower)}
  IN  IF hit = {} THEN None ELSE SetMin(hit) - 1

\* h.get('position', {}).get(k, 0)
PosOf(h, k) == IF Has(h, "position") THEN Get(h.position, k, 0) ELSE 0

\* _analyze_font_sizes(...)['size_levels']: the max_level largest distinct
\* sizes, numbered from 0 in descending order ({} when no heading has a size)
SizeLevels(hs, maxLevel) ==
  LET sizes == {hs[i].font_size : i \in {j \in 1..Len(hs) : Has(hs[j], "font_size")}}
      rank(sz) == Cardinality({t \in sizes : t > sz})
  IN  [sz \in {t \in sizes : rank(t) < maxLevel} |-> rank(sz)]

\* _analyze_numbering_patterns(...)[i]['matched_level']
PatternLevel(h) == MatchNumberingPattern(StrStrip(Get(h, "text", <<>>)))

\* _analyze_position_patterns(...)[i]['indentation']: x minus the least x on
\* the heading's page
Indentation(hs, i) ==
  PosOf(hs[i], "x") - SetMin({PosOf(hs[j], "x") : j \in {k \in 1..Len(hs) : hs[k].page = hs[i].page}})

\* _calculate_heading_level
CalculateHeadingLevel(hs, i, maxLevel) ==
  LET font_size == Get(hs[i], "font_size", 12)
      size_levels == SizeLevels(hs, maxLevel)
      base_level == IF font_size \in DOMAIN size_levels THEN size_levels[font_size] ELSE 1
      matched == PatternLevel(hs[i])
  IN  IF matched # None THEN matched
      ELSE IF Indentation(hs, i) > 20
           THEN Min(Min(base_level + 1, maxLevel - 1), maxLevel - 1)
           ELSE Min(base_level, maxLevel - 1)

\* d with d[k] = v set (added when absent)
SetKey(d, k, v) == [x \in DOMAIN d \cup {k} |-> IF x = k THEN v ELSE d[x]]

\* _determine_hierarchy adding the level it computes to a level the dict
\* already has
DetermineHierarchyAdding(hs, maxLevel) ==
  [i \in 1..Len(hs) |->
     SetKey(SetKey(hs[i], "level",
                   Get(hs[i], "level", 0)
                     + (IF Len(hs) = 1 THEN 0 ELSE CalculateHeadingLevel(hs, i, maxLevel))),
            "level_certainty", Get(hs[i], "confidence", 500000))]

\* _determine_hierarchy on the working list hs: every dict gets its level
\* (and, when there are several, its level_certainty) written into it
DetermineHierarchy(hs, maxLevel) ==
  IF Len(hs) = 1 THEN <<SetKey(hs[1], "level", 0)>>
  ELSE [i \in 1..Len(hs) |->
          SetKey(SetKey(hs[i], "level", CalculateHeadingLevel(hs, i, maxLevel)),
                 "level_certainty", Get(hs[i], "confidence", 500000))]

\* sorted(..., key=lambda h: (h['page'], h.get('position', {}).get('y', 0)))
PageYLess(a, b) ==
  a.page < b.page \/ (a.page = b.page /\ PosOf(a, "y") < PosOf(b, "y"))
SortByPageY(hs) ==
  LET ord == StableOrder(Len(hs), {ij \in (1..Len(hs)) \X (1..Len(hs)) :
                                      PageYLess(hs[ij[1]], hs[ij[2]])})
  IN  [r \in 1..Len(hs) |-> hs[ord[r]]]

\* the entry _build_toc_hierarchy makes of a heading (children and _index
\* are the tree's links, kept in tree)
EntryOf(h) ==
  [title |-> Get(h, "title", Get(h, "text", <<>>)),
   level |-> h.level,
   pageNumber |-> h.page,
   confidence |-> h.confidence,
   detection_method |-> Get(h, "detection_method", <<"unknown">>)]

\* The loop of _build_toc_hierarchy from heading i on.  stack holds, per
\* level, the position in nodes of the entry last seen there, or None for a
\* slot the padding appended.  The result is the nodes built, and raised
\* tells that the membership test 'children' in parent met parent = None
\* (a TypeError, which ends the loop).
RECURSIVE BuildFrom(_, _, _, _, _)
BuildFrom(hs, i, stack, nodes, maxLevel) ==
  IF i > Len(hs) THEN [raised |-> FALSE, nodes |-> nodes]
  ELSE LET level == hs[i].level
           popped == SubSeq(stack, 1, Min(Len(stack), level))
           top == IF popped = <<>> THEN None ELSE popped[Len(popped)]
           parent == IF popped = <<>> \/ level = 0 THEN 0 ELSE top
           me == Len(nodes) + 1
           padded == popped \o [k \in 1..(level + 1 - Len(popped)) |-> None]
           pushed == IF level < maxLevel
                     THEN [padded EXCEPT ![level + 1] = me]
                     ELSE popped
       IN  IF popped # <<>> /\ level # 0 /\ top = None THEN [raised |-> TRUE, nodes |-> nodes]
           ELSE BuildFrom(hs, i + 1, pushed,
                          Append(nodes, [entry |-> EntryOf(hs[i]), parent |-> parent]),
                          maxLevel)

\* _build_toc_hierarchy
BuildTocHierarchy(hs, maxLevel) ==
  IF hs = <<>> THEN [raised |-> FALSE, nodes |-> <<>>]
  ELSE BuildFrom(SortByPageY(hs), 1, <<>>, <<>>, maxLevel)

\* _flatten_toc(entries, base_level) over the nodes whose parent is par:
\* each entry, then its children flattened with the same base_level
RECURSIVE FlattenFrom(_, _, _, _)
FlattenFrom(nodes, par, k, base_level) ==
  IF k > Len(nodes) THEN <<>>
  ELSE IF nodes[k].parent = par
       THEN <<[nodes[k].entry EXCEPT !.level = @ + base_level]>>
            \o FlattenFrom(nodes, k, k + 1, base_level)
            \o FlattenFrom(nodes, par, k + 1, base_level)
       ELSE FlattenFrom(nodes, par, k + 1, base_level)
FlattenToc(nodes) == FlattenFrom(nodes, 0, 1, 0)

(***************************************************************************)
(* heading_detector.py: HeadingDetector                                    *)
(***************************************************************************)
\* self.heading_patterns, compiled with re.IGNORECASE, applied with search();
\* all five are written with ^
heading_patterns ==
  << \* ^\d+(\.\d+)*\s+
     <<Cls(Digit, 1, Inf), Grp(<< <<Ch("."), Cls(Digit, 1, Inf)>> >>, 0, Inf), Cls(WS, 1, Inf)>>,
     \* ^(chapter|chap|ch\.|section|sect\.|<U+0E22><U+0E07>\s*\d+)
     <<Grp(<< Lit(<<"c","h","a","p","t","e","r">>),
              Lit(<<"c","h","a","p">>),
              Lit(<<"c","h",".">>),
              Lit(<<"s","e","c","t","i","o","n">>),
              Lit(<<"s","e","c","t",".">>),
              Lit(<<"U+0E22","U+0E07">>) \o <<Cls(WS, 0, Inf), Cls(Digit, 1, Inf)>> >>, 1, 1)>>,
     \* ^(introduction|overview|summary|conclusion|appendix|references?|bibliography)
     <<Grp(<< Lit(<<"i","n","t","r","o","d","u","c","t","i","o","n">>),
              Lit(<<"o","v","e","r","v","i","e","w">>),
              Lit(<<"s","u","m","m","a","r","y">>),
              Lit(<<"c","o","n","c","l","u","s","i","o","n">>),
              Lit(<<"a","p","p","e","n","d","i","x">>),
              Lit(<<"r","e","f","e","r","e","n","c","e">>) \o <<Cls({"s"}, 0, 1)>>,
              Lit(<<"b","i","b","l","i","o","g","r","a","p","h","y">>) >>, 1, 1)>>,
     \* ^[IVXLCDM]+\s+
     <<Cls({"I","V","X","L","C","D","M"}, 1, Inf), Cls(WS, 1, Inf)>>,
     \* ^[A-Z]\.[\s\n]+
     <<Cls(Upper, 1, 1), Ch("."), Cls(WS, 1, Inf)>> >>

\* the largest r with r * r <= v, searched between lo and hi
RECURSIVE ISqrtIn(_, _, _)
ISqrtIn(v, lo, hi) ==
  IF lo >= hi THEN lo
  ELSE LET mid == (lo + hi + 1) \div 2
       IN  IF mid * mid <= v THEN ISqrtIn(v, mid, hi) ELSE ISqrtIn(v, lo, mid - 1)
ISqrt(v) == ISqrtIn(v, 0, 46340)

RECURSIVE SeqSum(_)
SeqSum(s) == IF s = <<>> THEN 0 ELSE Head(s) + SeqSum(Tail(s))

\* sorted(values)
SortedInts(v) ==
  LET ord == StableOrder(Len(v), {ij \in (1..Len(v)) \X (1..Len(v)) : v[ij[1]] < v[ij[2]]})
  IN  [r \in 1..Len(v) |-> v[ord[r]]]

\* statistics.median, in thousandths
Median(v) ==
  LET n == Len(v)
      sv == SortedInts(v)
  IN  IF n % 2 = 1 THEN 1000 * sv[(n + 1) \div 2]
      ELSE 500 * (sv[n \div 2] + sv[n \div 2 + 1])

\* statistics.stdev (the sample standard deviation), in thousandths:
\* sqrt((n * sum(x^2) - sum(x)^2) / (n * (n - 1)))
Stdev(v) ==
  LET n == Len(v)
      sq == [i \in 1..n |-> v[i] * v[i]]
      num == n * SeqSum(sq) - SeqSum(v) * SeqSum(v)
  IN  ISqrt((1000000 * num) \div (n * (n - 1)))

\* font statistics whose heading threshold is the large_threshold formula
AnalyzeFontStatisticsLarge(elements) ==
  LET font_sizes == [i \in 1..Len(elements) |-> elements[i].font_size]
      std_size == IF Len(font_sizes) > 1 THEN Stdev(font_sizes) ELSE 0
      max_size == 1000 * SetMax({font_sizes[i] : i \in 1..Len(font_sizes)})
  IN  IF Len(font_sizes) = 0 THEN <<>>
      ELSE [median_size |-> Median(font_sizes),
            std_size |-> std_size,
            max_size |-> max_size,
            min_size |-> 1000 * SetMin({font_sizes[i] : i \in 1..Len(font_sizes)}),
            heading_threshold |-> IF std_size > 0 THEN (max_size * 85) \div 100
                                  ELSE Median(font_sizes),
            large_threshold |-> IF std_size > 0 THEN (max_size * 85) \div 100
                                ELSE Median(font_sizes)]

\* _analyze_font_statistics (size_distribution, which nothing reads, is left
\* out): the empty dict is the record with no field
AnalyzeFontStatistics(elements) ==
  LET font_sizes == [i \in 1..Len(elements) |-> elements[i].font_size]
      std_size == IF Len(font_sizes) > 1 THEN Stdev(font_sizes) ELSE 0
      median_size == Median(font_sizes)
      max_size == 1000 * SetMax({font_sizes[i] : i \in 1..Len(font_sizes)})
      min_size == 1000 * SetMin({font_sizes[i] : i \in 1..Len(font_sizes)})
  IN  IF Len(font_sizes) = 0 THEN <<>>
      ELSE [median_size |-> median_size,
            std_size |-> std_size,
            max_size |-> max_size,
            min_size |-> min_size,
            heading_threshold |-> IF std_size > 0 THEN median_size + std_size ELSE median_size,
            large_threshold |-> IF std_size > 0 THEN (max_size * 85) \div 100 ELSE median_size]

\* _score_font_size, in thousandths
ScoreFontSize(element, font_stats) ==
  IF DOMAIN font_stats = {} \/ ~Has(element, "font_size") THEN 0
  ELSE LET font_size == 1000 * element.font_size
       IN  IF Has(font_stats, "heading_threshold")
              /\ font_size >= font_stats.heading_threshold
           THEN IF font_stats.max_size > font_stats.heading_threshold
                THEN Min(500 + (500 * (font_size - font_stats.heading_threshold))
                                 \div (font_stats.max_size - font_stats.heading_threshold),
                         1000)
                ELSE 800
           ELSE 0

\* _score_text_pattern, in thousandths
ScoreTextPattern(element) ==
  LET text == StrStrip(Get(element, "text", <<>>))
  IN  IF text = <<>> THEN 0
      ELSE IF \E k \in 1..Len(heading_patterns) : PrefixMatch(heading_patterns[k], text, TRUE)
           THEN 900
      ELSE IF WordCount(text) <= 5 /\ IsUpper(text) THEN 700
      ELSE IF WordCount(text) <= 4 /\ IsTitle(text) THEN 600
      ELSE 0

\* _score_text_structure, in thousandths
ScoreTextStructure(element, font_stats) ==
  LET text == StrStrip(Get(element, "text", <<>>))
      words == WordCount(text)
  IN  IF text = <<>> THEN 0
      ELSE (IF 1 <= words /\ words <= 10 THEN 200 ELSE 0)
           + (IF text[Len(text)] \notin {".", "?", "!", ":", ";", ","} THEN 200 ELSE 0)
           + (IF CountCh(text, ".") <= 1 THEN 100 ELSE 0)

\* a position factor of 0.5 for the top of the page
ScorePositionHalf(element) == IF PosOf(element, "y") < 100 THEN 500 ELSE 0

\* _score_position, in thousandths: the y read is element['position']['y'],
\* 0 when the element has no 'position'
ScorePosition(element) == IF PosOf(element, "y") < 100 THEN 300 ELSE 0

\* the weights of _calculate_heading_confidence, in thousandths
HeadingWeights == <<350, 350, 200, 100>>

\* _calculate_heading_confidence, in millionths
CalculateHeadingConfidence(element, font_stats) ==
  LET confidence_factors == << ScoreFontSize(element, font_stats),
                               ScoreTextPattern(element),
                               ScoreTextStructure(element, font_stats),
                               ScorePosition(element) >>
      confidence == SeqSum([k \in 1..4 |-> confidence_factors[k] * HeadingWeights[k]])
  IN  Min(confidence, 1000000)

\* _get_detection_method: the names of the factors above their activation
\* thresholds, in the order they are appended and joined with '|'
GetDetectionMethod(element, font_stats) ==
  LET methods ==
        (IF ScoreFontSize(element, font_stats) > 300 THEN <<"font_size">> ELSE <<>>)
        \o (IF ScoreTextPattern(element) > 500 THEN <<"text_pattern">> ELSE <<>>)
        \o (IF ScoreTextStructure(element, font_stats) > 300 THEN <<"text_structure">> ELSE <<>>)
        \o (IF ScorePosition(element) > 200 THEN <<"position">> ELSE <<>>)
  IN  IF methods = <<>> THEN <<"unknown">> ELSE methods

\* the heading detect_headings makes of an element
HeadingOf(element, font_stats) ==
  [title |-> StrStrip(element.text),
   page |-> element.page,
   confidence |-> CalculateHeadingConfidence(element, font_stats),
   detection_method |-> GetDetectionMethod(element, font_stats),
   font_size |-> element.font_size,
   position |-> [x |-> element.x, y |-> element.y]]

\* a sort key that leaves position.x out: (page, position.y)
PageYLessNoX(a, b) ==
  \/ a.page < b.page
  \/ a.page = b.page /\ a.position.y < b.position.y

\* sort key (page, position.y, position.x)
PageYXLess(a, b) ==
  \/ a.page < b.page
  \/ a.page = b.page /\ a.position.y < b.position.y
  \/ a.page = b.page /\ a.position.y = b.position.y /\ a.position.x < b.position.x

\* detect_headings
DetectHeadings(elements, threshold) ==
  IF elements = <<>> THEN <<>>
  ELSE LET font_stats == AnalyzeFontStatistics(elements)
           keep == {i \in 1..Len(elements) :
                      CalculateHeadingConfidence(elements[i], font_stats) >= threshold}
           kept == SeqFilter([i \in 1..Len(elements) |-> i], keep)
           found == [r \in 1..Len(kept) |-> HeadingOf(elements[kept[r]], font_stats)]
           ord == StableOrder(Len(found), {ij \in (1..Len(found)) \X (1..Len(found)) :
                                             PageYXLess(found[ij[1]], found[ij[2]])})
       IN  [r \in 1..Len(found) |-> found[ord[r]]]

(***************************************************************************)
(* TOCPatternMatcher.  A compiled pattern is its source, its atoms and,    *)
(* for each capturing group, the atoms the group spans.  The patterns are  *)
(* compiled without flags, so [a-z] is lowercase only.                     *)
(***************************************************************************)
Lz == LazyCls(Dot, 0, Inf)
Dots(lo) == Cls({"."}, lo, Inf)
Sp(lo) == Cls(WS, lo, Inf)
Dg == Cls(Digit, 1, Inf)
Lw == Cls(Lower, 0, Inf)
Tabs == Cls({"\t"}, 1, Inf)

Pat(name, pattern, re, groups) ==
  [name |-> name, pattern |-> pattern, re |-> re, groups |-> groups]

\* TOCFormat, in the order the patterns dict lists the formats
TOCFormats ==
  <<"dot_leader", "tab_based", "space_aligned", "ordinal_dots", "marked_list",
    "hyperlink">>

\* self.compiled_patterns[format_type], variants in insertion order
compiled_patterns(format_type) ==
  CASE format_type = "dot_leader" ->
         << Pat("primary", "^(.*?)\\.{3,}\\s*(\\d+[a-z]*)$",
                <<Lz, Dots(3), Sp(0), Dg, Lw>>, << <<1, 1>>, <<4, 5>> >>),
            Pat("variant1", "^(.*?)\\s+\\.+\\s+(\\d+)$",
                <<Lz, Sp(1), Dots(1), Sp(1), Dg>>, << <<1, 1>>, <<5, 5>> >>),
            Pat("variant2", "^(.*?)\\u00a0+\\.+\\s*(\\d+)$",
                <<Lz, Cls({NBSP}, 1, Inf), Dots(1), Sp(0), Dg>>, << <<1, 1>>, <<5, 5>> >>),
            Pat("variant3", "^(.*?)U+202F+\\.+\\s*(\\d+)$",
                <<Lz, Cls({NNBSP}, 1, Inf), Dots(1), Sp(0), Dg>>, << <<1, 1>>, <<5, 5>> >>) >>
    [] format_type = "tab_based" ->
         << Pat("primary", "^(.*?)\\t+(\\d+[a-z]*)$",
                <<Lz, Tabs, Dg, Lw>>, << <<1, 1>>, <<3, 4>> >>),
            Pat("variant1", "^(.*?)\\t+\\s*(\\d+)$",
                <<Lz, Tabs, Sp(0), Dg>>, << <<1, 1>>, <<4, 4>> >>),
            Pat("variant2", "^(.*?)\\s+\\t+(\\d+)$",
                <<Lz, Sp(1), Tabs, Dg>>, << <<1, 1>>, <<4, 4>> >>) >>
    [] format_type = "space_aligned" ->
         << Pat("primary", "^(.*?)\\s{4,}(\\d+[a-z]*)$",
                <<Lz, Cls(WS, 4, Inf), Dg, Lw>>, << <<1, 1>>, <<3, 4>> >>),
            Pat("variant1", "^(.*?)\\s+\\s{3,}(\\d+)$",
                <<Lz, Sp(1), Cls(WS, 3, Inf), Dg>>, << <<1, 1>>, <<4, 4>> >>) >>
    [] format_type = "ordinal_dots" ->
         << Pat("primary", "^(\\d+\\.\\d*)\\s+(.*?)\\s+\\.*\\s*(\\d+[a-z]*)$",
                <<Dg, Ch("."), Cls(Digit, 0, Inf), Sp(1), Lz, Sp(1), Dots(0), Sp(0), Dg, Lw>>,
                << <<1, 3>>, <<5, 5>>, <<9, 10>> >>),
            Pat("variant1", "^(\\d+)\\.?\\s+(.*?)\\s+\\.*\\s*(\\d+)$",
                <<Dg, Cls({"."}, 0, 1), Sp(1), Lz, Sp(1), Dots(0), Sp(0), Dg>>,
                << <<1, 1>>, <<4, 4>>, <<8, 8>> >>),
            Pat("variant2", "^(\\d+\\.\\d+\\.\\d*)\\s+(.*?)\\s+\\.*\\s*(\\d+)$",
                <<Dg, Ch("."), Dg, Ch("."), Cls(Digit, 0, Inf), Sp(1), Lz, Sp(1), Dots(0),
                  Sp(0), Dg>>,
                << <<1, 5>>, <<7, 7>>, <<11, 11>> >>) >>
    [] format_type = "marked_list" ->
         << Pat("primary", "^[-*+]\\s+(.*?)\\s+\\.*\\s*(\\d+[a-z]*)$",
                <<Cls({"-", "*", "+"}, 1, 1), Sp(1), Lz, Sp(1), Dots(0), Sp(0), Dg, Lw>>,
                << <<3, 3>>, <<7, 8>> >>),
            Pat("variant1", "^\\d+\\.\\s+(.*?)\\s+\\.*\\s*(\\d+)$",
                <<Dg, Ch("."), Sp(1), Lz, Sp(1), Dots(0), Sp(0), Dg>>,
                << <<4, 4>>, <<8, 8>> >>) >>
    [] format_type = "hyperlink" ->
         << Pat("primary", "^(.*?)\\s+\\.*\\s*(\\d+)(?:\\s+goto)?$",
                <<Lz, Sp(1), Dots(0), Sp(0), Dg,
                  Grp(<< <<Sp(1)>> \o Lit(<<"g", "o", "t", "o">>) >>, 0, 1)>>,
                << <<1, 1>>, <<5, 5>> >>) >>

\* compiled_pattern.match(s): whether s matches, and match.groups()
PatMatches(pat, s) == FullMatch(pat.re, s, FALSE)
MatchGroups(pat, s) ==
  [g \in 1..Len(pat.groups) |->
     GroupText(pat.re, s, FALSE, pat.groups[g][1], pat.groups[g][2])]

\* text.split('\n')
SplitLines(text) ==
  CHOOSE l \in
    {[n \in 1..Len(b) - 1 |-> SubSeq(t, b[n] + 1, b[n + 1] - 1)] :
       t \in {text},
       \* the positions of the line breaks, between 0 and Len(text) + 1
       b \in {<<0>> \o SeqFilter([i \in 1..Len(t) |-> i],
                                  {i \in 1..Len(t) : t[i] = "\n"}) \o <<Len(t) + 1>> :
                t \in {text}}} : TRUE

\* re.sub(pat, '', s) for a pattern ending in $ that cannot match the empty
\* string: the match starts at the leftmost position from which pat reaches
\* the end of s
DropSuffix(re, s) ==
  CHOOSE d \in
    {(IF I = {} THEN t ELSE Slice(t, 0, SetMin(I))) :
       t \in {s},
       I \in {{i \in 0..Len(t) : Len(t) \in Ends(r, t, {i}, FALSE)} :
                r \in {re}, t \in {s}}} : TRUE

\* _clean_title
CleanTitle(title) ==
  LET t1 == StrStrip(CollapseWS(title))
      t2 == DropPrefix(<<Dg, Cls({"."}, 0, 1), Sp(0)>>, t1, FALSE)
      t3 == DropSuffix(<<Sp(0), Dg, Cls({"."}, 0, 1), Sp(0)>>, t2)
  IN  StrStrip(DropSuffix(<<Dots(1)>>, t3))

\* whether int(s) succeeds: optional whitespace around an optional sign and
\* digits, single underscores allowed between digits
IsIntLiteral(s) ==
  LET t == StrStrip(s)
      body == IF t # <<>> /\ t[1] \in {"+", "-"} THEN Tail(t) ELSE t
  IN  /\ body # <<>>
      /\ \A i \in 1..Len(body) : body[i] \in Digit \cup {"_"}
      /\ body[1] \in Digit /\ body[Len(body)] \in Digit
      /\ \A i \in 1..(Len(body) - 1) : ~(body[i] = "_" /\ body[i + 1] = "_")
\* int(s) when it succeeds
IntValue(s) ==
  LET t == StrStrip(s)
      neg == t[1] = "-"
      body == IF t[1] \in {"+", "-"} THEN Tail(t) ELSE t
      v == DigitsValue(SeqFilter(body, Digit))
  IN  IF neg THEN 0 - v ELSE v

roman_to_int == [i |-> 1, ii |-> 2, iii |-> 3, iv |-> 4, v |-> 5]
\* the key of roman_to_int a lowercased token spells, or "" when none
RomanKey(s) ==
  CASE s = <<"i">> -> "i"
    [] s = <<"i", "i">> -> "ii"
    [] s = <<"i", "i", "i">> -> "iii"
    [] s = <<"i", "v">> -> "iv"
    [] s = <<"v">> -> "v"
    [] OTHER -> ""

\* _page_to_int taking the part before the hyphen (parts[0]) of a lettered page
PageToIntBeforeHyphen(token) ==
  LET low == StrLower(token)
  IN  IF IsIntLiteral(low) THEN IntValue(low)
      ELSE IF RomanKey(low) # "" THEN roman_to_int[RomanKey(low)]
      ELSE IF \E i \in 1..Len(low) : low[i] = "-"
      THEN LET k == CHOOSE i \in 1..Len(low) :
                      low[i] = "-" /\ \A j \in 1..(i - 1) : low[j] # "-"
               first == SubSeq(low, 1, k - 1)
           IN  IF IsIntLiteral(first) THEN IntValue(first) ELSE None
      ELSE None

\* _page_to_int: the page, or None
PageToInt(token) ==
  LET low == StrLower(token)
  IN  IF IsIntLiteral(low) THEN IntValue(low)
      ELSE IF RomanKey(low) # "" THEN roman_to_int[RomanKey(low)]
      ELSE IF \E i \in 1..Len(low) : low[i] = "-"
      THEN LET k == CHOOSE i \in 1..Len(low) :
                      low[i] = "-" /\ \A j \in 1..(i - 1) : low[j] # "-"
               rest == SubSeq(low, k + 1, Len(low))
           IN  IF IsIntLiteral(rest) THEN IntValue(rest) ELSE None
      ELSE None

\* TOCPatternMatcher._determine_level
MatcherDetermineLevel(title, line) ==
  LET indent == Len(line) - Len(StrStrip(line))
      level0 == IF line # StrStrip(line) THEN Min(indent \div 4, 3) ELSE 0
      numEnds == Ends(<<Dg, Grp(<< <<Ch("."), Dg>> >>, 0, Inf)>>, title, {0}, FALSE)
      level1 == IF numEnds = {} THEN level0
                ELSE Max(level0, CountCh(Slice(title, 0, SetMax(numEnds)), "."))
      level2 == IF PrefixMatch(<<Cls({"I", "V", "X"}, 1, Inf), Cls(WS, 1, 1)>>, title, FALSE)
                THEN level1 + 1 ELSE level1
  IN  Min(level2, 3)

\* the strings the inputs and the code are made of, each a sequence of
\* characters
Txt ==
  [ S_introduction |-> <<"i","n","t","r","o","d","u","c","t","i","o","n">>,
    S_conclusion |-> <<"c","o","n","c","l","u","s","i","o","n">>,
    S_references |-> <<"r","e","f","e","r","e","n","c","e","s">>,
    S_appendix |-> <<"a","p","p","e","n","d","i","x">>,
    S_1Introduction |-> <<"1"," ","I","n","t","r","o","d","u","c","t","i","o","n">>,
    S_11Setup |-> <<"1",".","1"," ","S","e","t","u","p">>,
    S_12Config |-> <<"1",".","2"," ","C","o","n","f","i","g">>,
    S_2Advanced |-> <<"2"," ","A","d","v","a","n","c","e","d">>,
    S_aItem |-> <<"(","a",")"," ","i","t","e","m">>,
    S_Overview |-> <<"O","v","e","r","v","i","e","w">>,
    S_Notes |-> <<"N","o","t","e","s">>,
    S_abc |-> <<"a","-","b","-","c">>,
    S_INTRO |-> <<"I","N","T","R","O">>,
    S_SomeTitle |-> <<"S","o","m","e"," ","T","i","t","l","e">>,
    S_PlainText |-> <<"p","l","a","i","n"," ","t","e","x","t"," ","h","e","r","e",".">>,
    S_Summary |-> <<"S","u","m","m","a","r","y">>,
    S_A12 |-> <<"A", "-", "1", "2">>,
    S_B123 |-> <<"B", "-", "1", "2", "3">>,
    S_12a |-> <<"1", "2", "a">>,
    S_Intro |-> <<"I", "n", "t", "r", "o">>,
    S_12Deep |-> <<"1", ".", "2", " ", "D", "e", "e", "p">>,
    L_Aa5 |-> <<"A", "a", ".", ".", ".", "5">>,
    L_Bb3 |-> <<"B", "b", ".", ".", ".", "3">>,
    L_Cc5 |-> <<"C", "c", ".", " ", "5">>,
    L_Dd3 |-> <<"D", "d", ".", " ", "3">>,
    L_Zz5 |-> <<"Z", "z", ".", ".", ".", "5">>,
    L_Yy5 |-> <<"Y", "y", ".", ".", ".", "5">>,
    L_x0 |-> <<"x", ".", ".", ".", "0">>,
    L_xx |-> <<"x", "x">>,
    L_Outline2 |-> <<"1", ".", "2", " ", "A", "a", ".", ".", ".", "5">>,
    L_Outline3 |-> <<"1", ".", "2", ".", "3", " ", "B", "b", ".", ".", ".", "6">>,
    L_Intro7 |-> <<"I", "n", "t", "r", "o", " ", "7">>,
    L_Intro8 |-> <<"I", "n", "t", "r", "o", " ", "8">>,
    L_Chapter1 |-> <<"C", "h", "a", "p", "t", "e", "r", " ", "1", " ", "I", "n", "t", "r", "o", "d", "u", "c", "t", "i", "o", "n">>,
    L_Chapter2 |-> <<"C", "h", "a", "p", "t", "e", "r", " ", "2", " ", "M", "e", "t", "h", "o", "d", "s">>,
    L_Chapter3 |-> <<"C", "h", "a", "p", "t", "e", "r", " ", "3", " ", "C", "o", "n", "c", "l", "u", "s", "i", "o", "n">>,
    S_abstract |-> <<"a", "b", "s", "t", "r", "a", "c", "t">>,
    S_methods |-> <<"m", "e", "t", "h", "o", "d", "s">>,
    S_results |-> <<"r", "e", "s", "u", "l", "t", "s">>,
    S_discussion |-> <<"d", "i", "s", "c", "u", "s", "s", "i", "o", "n">>,
    B_Introduction0 |-> <<"I", "n", "t", "r", "o", "d", "u", "c", "t", "i", "o", "n", " ", "0">>,
    B_Methods12 |-> <<"M", "e", "t", "h", "o", "d", "s", " ", "1", "2", "\n", "x", "x">>,
    B_DotLeader |-> <<"A", "a", ".", ".", ".", "5", "\n", "B", "b", ".", ".", ".", "3">>,
    B_DotLeader0 |-> <<"A", "b", ".", ".", ".", "0", "\n", "C", "d", ".", ".", ".", "7">>,
    B_Conclusion |-> <<"C", "o", "n", "c", "l", "u", "s", "i", "o", "n">>,
    B_Results |-> <<"3", " ", "R", "e", "s", "u", "l", "t", "s", ":", " ", "I", "n", "t", "r", "o", "d", "u", "c", "t", "i", "o", "n">>,
    B_Outline |-> <<"1", ".", "2", ".", "3", " ", "T", "i", "t", "l", "e", " ", ".", ".", ".", " ", "1", "2">>,
    B_Ordinal |-> <<"1", ".", " ", "I", "n", "t", "r", "o", "d", "u", "c", "t", "i", "o", "n", " ", "4", "\n", "2", ".", " ", "M", "e", "t", "h", "o", "d", "s", " ", "0">>,
    T_1a |-> <<"1", "a">>,
    T_LongNumbered |-> <<"1", "2", " ", "L", "o", "n", "g", " ", "t", "i", "t", "l", "e", " ", "x">>,
    T_Deep |-> <<"1", ".", "2", " ", "D", "e", "e", "p", " ", "s", "e", "c", "t", "i", "o", "n">>,
    T_intro |-> <<"i", "n", "t", "r", "o">>,
    \* in place of a page's text: page.extract_text() raises
    P_raises |-> <<"extract_text raises">> ]

\* TOCPatternMatcher._calculate_entry_confidence, in millionths
MatcherEntryConfidence(title, page_token, line, format_type) ==
  LET c0 == 600000
      c1 == c0 + (IF 3 <= Len(title) /\ Len(title) <= 120 THEN 100000 ELSE 0)
      c2 == c1 - (IF Len(title) < 3 THEN 200000 ELSE 0)
      c3 == c2 - (IF Len(title) > 150 THEN 100000 ELSE 0)
      c4 == c3 + (IF SearchAny(<<Dg, Ch("."), Dg>>, title, FALSE) THEN 200000 ELSE 0)
      c5 == c4 + (IF StrLower(title) \in
                       {Txt.S_introduction, Txt.S_conclusion, Txt.S_references, Txt.S_appendix}
                  THEN 100000 ELSE 0)
      c6 == c5 + (CASE format_type = "dot_leader" -> 100000
                    [] format_type = "ordinal_dots" -> 150000
                    [] OTHER -> 0)
  IN  Min(Max(c6, 0), 1000000)

\* _parse_match on a match with the given groups(): no entry (<<>>) or one
ParseMatch(groups, pattern, format_type, line) ==
  IF groups = <<>> THEN <<>>
  ELSE LET ordinal == format_type = "ordinal_dots" /\ Len(groups) >= 2
           title == CleanTitle(IF ordinal THEN groups[2] ELSE groups[1])
           page_token == IF ordinal
                         THEN (IF Len(groups) >= 3 THEN groups[3] ELSE <<"1">>)
                         ELSE groups[2]
           page == PageToInt(page_token)
       IN  IF page = None \/ page = 0 THEN <<>>
           ELSE << [title |-> title,
                    pageNumber |-> page,
                    level |-> MatcherDetermineLevel(title, line),
                    confidence |-> MatcherEntryConfidence(title, page_token, line, format_type),
                    raw_line |-> line,
                    format_type |-> format_type,
                    detected_pattern |-> pattern] >>

\* the concatenation of a sequence of sequences
RECURSIVE FlattenFrom1(_, _)
FlattenFrom1(ss, k) == IF k > Len(ss) THEN <<>> ELSE ss[k] \o FlattenFrom1(ss, k + 1)
Flatten(ss) == CHOOSE f \in {FlattenFrom1(t, 1) : t \in {[k \in DOMAIN ss |-> ss[k]]}} : TRUE

\* extract_entries: the entries of each variant in turn, line by line
ExtractEntries(text, format_type) ==
  LET lines == SplitLines(text)
      patterns == compiled_patterns(format_type)
      EntryAt(v, n) ==
        IF PatMatches(patterns[v], StrStrip(lines[n]))
        THEN LET e == ParseMatch(MatchGroups(patterns[v], StrStrip(lines[n])),
                                 patterns[v].pattern, format_type, lines[n])
             IN  IF e # <<>> /\ e[1].confidence > 300000 THEN e ELSE <<>>
        ELSE <<>>
  IN  Flatten([v \in 1..Len(patterns) |-> Flatten([n \in 1..Len(lines) |-> EntryAt(v, n)])])

\* the matches find_toc_pattern counts for a format: one per variant and line
MatchCount(lines, format_type) ==
  Cardinality({vn \in (1..Len(compiled_patterns(format_type))) \X (1..Len(lines)) :
                 PatMatches(compiled_patterns(format_type)[vn[1]], StrStrip(lines[vn[2]]))})

\* find_toc_pattern: no result (<<>>) or the format with the highest match
\* ratio among those with at least two matches, the first listed on a tie
FindTocPattern(text) ==
  LET lines == SplitLines(text)
      count == [f \in 1..Len(TOCFormats) |-> MatchCount(lines, TOCFormats[f])]
      found == {f \in 1..Len(TOCFormats) : count[f] >= 2}
  IN  IF found = {} THEN <<>>
      ELSE LET best == CHOOSE f \in found :
                         /\ \A g \in found : count[g] <= count[f]
                         /\ \A g \in found : count[g] = count[f] => f <= g
           IN  << [format_type |-> TOCFormats[best], matches |-> count[best],
                   total_lines |-> Len(lines)] >>

\* _try_special_patterns: the section names looked for, in order
academic_patterns ==
  <<Txt.S_abstract, Txt.S_introduction, Txt.S_methods, Txt.S_results, Txt.S_discussion,
    Txt.S_conclusion>>

\* rf'\b{word}\b' matches content at position p (counted from 0)
WordAt(content, word, p) ==
  /\ p + Len(word) <= Len(content)
  /\ SubSeq(content, p + 1, p + Len(word)) = word
  /\ p = 0 \/ content[p] \notin WordCh
  /\ p + Len(word) = Len(content) \/ content[p + Len(word) + 1] \notin WordCh

\* re.search(r'(\d+)', s).group(1): the first run of digits of s (<<>> when
\* there is no digit)
FirstDigits(s) ==
  CHOOSE d \in
    {(IF D = {} THEN <<>>
      ELSE SubSeq(t, SetMin(D), SetMin(D) + RunLen(t, SetMin(D), Digit, FALSE, Inf))) :
       t \in {s}, D \in {{i \in 1..Len(s) : s[i] \in Digit}}} : TRUE

\* text[max(0, match.start()-20):match.end()+20] for a match of word at p
SpecialContext(text, word, p) == Slice(text, Max(0, p - 20), p + Len(word) + 20)

\* _try_special_patterns, for the i-th section name: the entry of its first
\* match that has a number in its context
SpecialEntry(text, i, block_num) ==
  CHOOSE es \in
    {(IF hits = {} THEN <<>>
      ELSE << [title |-> StrTitle(word),
               pageNumber |-> DigitsValue(FirstDigits(SpecialContext(t, word, SetMin(hits)))),
               level |-> IF i - 1 < 2 THEN 1 ELSE 2,
               confidence |-> 800000,
               block_number |-> block_num,
               detection_method |-> "academic_sections"] >>) :
       t \in {text}, word \in {academic_patterns[i]},
       hits \in {{p \in 0..Len(text) :
                    /\ WordAt(StrLower(text), academic_patterns[i], p)
                    /\ FirstDigits(SpecialContext(text, academic_patterns[i], p)) # <<>>}}} :
      TRUE

\* TOCPatternMatcher._try_special_patterns
TrySpecialPatterns(text, block_num) ==
  Flatten([i \in 1..Len(academic_patterns) |-> SpecialEntry(text, i, block_num)])

\* re.sub(r'\W+', '', entry['title'].lower())
NormTitle(title) == SeqFilter(StrLower(title), WordCh)

\* TOCPatternMatcher._merge_overlapping_entries, from entry k on
RECURSIVE MergeFrom(_, _, _)
MergeFrom(entries, k, seen_titles) ==
  IF k > Len(entries) THEN <<>>
  ELSE CHOOSE r \in
         {(IF ~should_skip /\ norm_title # <<>>
           THEN <<entries[k]>> \o MergeFrom(entries, k + 1, seen_titles \cup {norm_title})
           ELSE MergeFrom(entries, k + 1, seen_titles)) :
            norm_title \in {NormTitle(entries[k].title)},
            should_skip \in {\E seen \in seen_titles, n \in {NormTitle(entries[k].title)} :
                               (IsSubstr(n, seen) \/ IsSubstr(seen, n)) /\ Len(n) > 5}} : TRUE

\* TOCPatternMatcher._merge_overlapping_entries
MergeOverlappingEntries(entries) == MergeFrom(entries, 1, {})

\* extract_entries_advanced, for one block: the entries of the format found
\* with their block_number, or else the entries of the special patterns
BlockEntries(block, block_num) ==
  CHOOSE es \in
    {(IF format_info # <<>>
      THEN [n \in 1..Len(entries) |->
              [f \in DOMAIN entries[n] \cup {"block_number"} |->
                 IF f = "block_number" THEN block_num ELSE entries[n][f]]]
      ELSE TrySpecialPatterns(block, block_num)) :
       format_info \in {FindTocPattern(block)},
       entries \in {(IF fi = <<>> THEN <<>> ELSE ExtractEntries(block, fi[1].format_type)) :
                      fi \in {FindTocPattern(block)}}} : TRUE

\* TOCPatternMatcher.extract_entries_advanced
ExtractEntriesAdvanced(blocks) ==
  MergeOverlappingEntries(Flatten([b \in 1..Len(blocks) |-> BlockEntries(blocks[b], b - 1)]))

(***************************************************************************)
(* toc_page_analyzer.py: TOCPAGEAnalyzer.  Its patterns are compiled with  *)
(* re.IGNORECASE; each ends with \s*$, so match.group(0) is the line.      *)
(***************************************************************************)
PageWs2 == Cls(WS, 2, Inf)
\* self.compiled_patterns, in insertion order
page_patterns ==
  << [name |-> "dot_leader", regex |-> "^(.*?)\\.{3,}\\s*(\\d+[a-z]*)\\s*$",
      re |-> <<Lz, Dots(3), Sp(0), Dg, Lw, Sp(0)>>, groups |-> 2, parens |-> 2],
     [name |-> "tab_based", regex |-> "^(.*?)\\t+(\\d+[a-z]*)\\s*$",
      re |-> <<Lz, Tabs, Dg, Lw, Sp(0)>>, groups |-> 2, parens |-> 2],
     [name |-> "dot_leader_variant", regex |-> "^(.*?)\\s*\\.+\\s*(\\d+[a-z]*)\\s*$",
      re |-> <<Lz, Sp(0), Dots(1), Sp(0), Dg, Lw, Sp(0)>>, groups |-> 2, parens |-> 2],
     [name |-> "space_aligned", regex |-> "^(.*?)\\s{2,}(\\d+[a-z]*)\\s*$",
      re |-> <<Lz, PageWs2, Dg, Lw, Sp(0)>>, groups |-> 2, parens |-> 2],
     [name |-> "numbered_item", regex |-> "^(\\d+\\.\\d*)\\s+(.*?)\\s{2,}(\\d+[a-z]*)\\s*$",
      re |-> <<Dg, Ch("."), Cls(Digit, 0, Inf), Sp(1), Lz, PageWs2, Dg, Lw, Sp(0)>>,
      groups |-> 3, parens |-> 3],
     [name |-> "roman_numeral", regex |-> "^(i[vx]|v|x)\\s+(.*?)\\s{2,}(\\d+[a-z]*)\\s*$",
      re |-> <<Grp(<< <<Ch("i"), Cls({"v", "x"}, 1, 1)>>, <<Ch("v")>>, <<Ch("x")>> >>, 1, 1),
               Sp(1), Lz, PageWs2, Dg, Lw, Sp(0)>>,
      groups |-> 3, parens |-> 3] >>

\* pattern.pattern.count('(')
ParenCount(pat) == pat.parens

\* _normalize_title
NormalizeTitle(title) ==
  DropPrefix(<<Dg, Grp(<< <<Ch("."), Cls(Digit, 0, Inf)>> >>, 0, Inf), Sp(1)>>,
             StrStrip(CollapseWS(title)), FALSE)

\* the end of the last run of digits of s (0 when s has no digit)
LastDigitEnd(s) ==
  IF \E i \in 1..Len(s) : s[i] \in Digit
  THEN SetMax({i \in 1..Len(s) : s[i] \in Digit}) ELSE 0
\* the text of the last run of digits of s
LastDigits(s) ==
  LET e == LastDigitEnd(s)
      b == SetMin({i \in 1..e : \A j \in i..e : s[j] \in Digit})
  IN  SubSeq(s, b, e)

\* a page number taken from the first run of digits of the match
ExtractFirstNumber(group0) ==
  IF LastDigitEnd(group0) = 0 THEN None
  ELSE LET b == SetMin({i \in 1..Len(group0) : group0[i] \in Digit})
       IN  DigitsValue(SubSeq(group0, b, b + RunLen(group0, b, Digit, FALSE, Inf)))

\* _extract_page_number: the last number in match.group(0), else None
ExtractPageNumber(group0) ==
  IF LastDigitEnd(group0) = 0 THEN None ELSE DigitsValue(LastDigits(group0))

\* a level taken from all the parts of the outline number of the line
PageDetermineLevelByOutline(line, group_count) ==
  LET numEnds == Ends(<<Dg, Grp(<< <<Ch("."), Dg>> >>, 0, Inf)>>, line, {0}, FALSE)
  IN  IF PrefixMatch(<<Dg, Grp(<< <<Ch("."), Dg>> >>, 0, Inf), Sp(1)>>, line, FALSE)
      THEN Min(CountCh(Slice(line, 0, SetMax(numEnds)), "."), 3)
      ELSE Min((Len(line) - Len(StrLStrip(line))) \div 4, 3)

\* TOCPAGEAnalyzer._determine_level
PageDetermineLevel(line, group_count) ==
  LET leading_spaces == Len(line) - Len(StrLStrip(line))
      level == leading_spaces \div 4
      \* line.split('.', 1)[0]
      first == IF \E i \in 1..Len(line) : line[i] = "."
               THEN SubSeq(line, 1, SetMin({i \in 1..Len(line) : line[i] = "."}) - 1)
               ELSE line
      \* len(first.split('.'))
      parts == CountCh(first, ".") + 1
  IN  IF PrefixMatch(<<Dg, Grp(<< <<Ch("."), Dg>> >>, 0, Inf), Sp(1)>>, line, FALSE)
      THEN parts - 1
      ELSE Min(level, 3)

\* TOCPAGEAnalyzer._calculate_entry_confidence, in millionths
PageEntryConfidence(entry, pattern_name) ==
  LET title == entry.title
      b1 == 600000 + (IF Len(title) > 10 THEN 100000 ELSE 0)
      b2 == b1 - (IF Len(title) < 3 THEN 200000 ELSE 0)
      b3 == b2 + (IF title # <<>> /\ title[1] \in Upper THEN 100000 ELSE 0)
      b4 == b3 + (IF title # <<>> /\ title[1] \in Digit THEN 200000 ELSE 0)
      b5 == b4 + (IF pattern_name \in {"dot_leader", "tab_based"} THEN 200000 ELSE 0)
      b6 == b5 - (IF Len(entry.raw_line) < Len(title) + 3 THEN 100000 ELSE 0)
  IN  Min(Max(b6, 0), 1000000)

\* the entry _analyze_page_content makes of a matching line
PageEntry(pat, line) ==
  LET e0 == [title |-> StrStrip(NormalizeTitle(
                         IF ParenCount(pat) = 1
                         THEN GroupText(pat.re, line, TRUE, 1, 1) ELSE line)),
             pageNumber |-> ExtractPageNumber(line),
             level |-> PageDetermineLevel(line, pat.groups),
             confidence |-> 800000,
             detection_method |-> pat.name,
             raw_line |-> line]
  IN  [e0 EXCEPT !.confidence = PageEntryConfidence(e0, pat.name)]

\* a page confidence whose bonuses are added after the last clamp
PageConfidenceUnclamped(entries, total_lines) ==
  IF entries = <<>> THEN 0
  ELSE LET nums == SeqFilter([i \in 1..Len(entries) |-> entries[i].pageNumber],
                             {entries[i].pageNumber : i \in 1..Len(entries)} \ {0, None})
           sequential == Cardinality({ij \in (1..Len(nums)) \X (1..Len(nums)) :
                                        nums[ij[2]] = nums[ij[1]] + 1})
           methods == {entries[i].detection_method : i \in 1..Len(entries)}
       IN  Min((2 * Len(entries) * 1000000) \div Max(total_lines, 1), 1000000)
           + (IF Len(nums) > 1 /\ sequential > Len(nums) \div 2 THEN 100000 ELSE 0)
           + (IF Cardinality(methods) = 1 THEN 50000 ELSE 0)

\* _calculate_page_confidence, in millionths
PageConfidence(entries, total_lines) ==
  IF entries = <<>> THEN 0
  ELSE CHOOSE c \in
    {LET hit2 == (2 * Len(es) * 1000000) \div Max(total_lines, 1)
         c0 == Min(hit2, 1000000)
         sequential == Cardinality({i \in 2..Len(sorted_nums) :
                                      sorted_nums[i] = sorted_nums[i - 1] + 1})
         c1 == c0 + (IF Len(sorted_nums) > 1 /\ sequential > Len(sorted_nums) \div 2
                     THEN 100000 ELSE 0)
         methods == {es[i].detection_method : i \in 1..Len(es)}
         c2 == c1 + (IF Cardinality(methods) = 1 THEN 50000 ELSE 0)
     IN  Min(c2, 1000000) :
     es \in {entries},
     \* sorted(page_nums)
     sorted_nums \in
       {[r \in 1..Len(nums) |->
           nums[StableOrder(Len(nums), {ij \in (1..Len(nums)) \X (1..Len(nums)) :
                                          nums[ij[1]] < nums[ij[2]]})[r]]] :
        \* page_nums: the page numbers that are not 0 or None
        nums \in {SeqFilter([i \in 1..Len(es) |-> es[i].pageNumber],
                            {es[i].pageNumber : i \in 1..Len(es)} \ {0, None}) :
                  es \in {entries}}}} : TRUE

\* _basic_toc_detection
BasicTocDetection(lines) ==
  LET EntryAt(raw) ==
        CHOOSE e \in
          {(IF line # <<>> /\ line[Len(line)] \in Digit
            THEN LET digits == LastDigits(line)
                     page == DigitsValue(digits)
                     \* line[:match.start()] is taken from the unstripped line
                     title == StrStrip(Slice(raw, 0, Len(line) - Len(digits)))
                 IN  IF title # <<>> /\ Len(title) > 3 /\ page > 0 /\ page < 1000
                     THEN << [title |-> title, pageNumber |-> page, level |-> 0,
                              confidence |-> 500000,
                              detection_method |-> "basic_heuristic"] >>
                     ELSE <<>>
            ELSE <<>>) : line \in {StrStrip(raw)}} : TRUE
  IN  Flatten([n \in 1..Len(lines) |-> EntryAt(lines[n])])

\* the non-blank lines of a page text, stripped
PageLines(text) ==
  CHOOSE l \in
    {[r \in 1..Len(kept) |-> StrStrip(raw[kept[r]])] :
       raw \in {SplitLines(text)},
       kept \in {SeqFilter([i \in 1..Len(raw) |-> i],
                           {i \in 1..Len(raw) : StrStrip(raw[i]) # <<>>}) :
                 raw \in {SplitLines(text)}}} : TRUE

\* the entries of all the lines a pattern matches
PatternEntriesUnfiltered(pat, lines) ==
  LET EntryAt(line) ==
        IF FullMatch(pat.re, line, TRUE) THEN <<PageEntry(pat, line)>> ELSE <<>>
  IN  Flatten([n \in 1..Len(lines) |-> EntryAt(lines[n])])

\* the entries a pattern yields on the lines of a page
PatternEntries(pat, lines) ==
  LET EntryAt(line) ==
        IF FullMatch(pat.re, line, TRUE)
        THEN CHOOSE k \in
               {(IF e.pageNumber \notin {0, None} /\ e.confidence > 500000
                 THEN <<e>> ELSE <<>>) : e \in {PageEntry(pat, line)}} : TRUE
        ELSE <<>>
  IN  Flatten([n \in 1..Len(lines) |-> EntryAt(lines[n])])

\* _analyze_page_content: no result (<<>>) or the TOCPageResult of the page;
\* an exception of the extraction is caught and gives no result
AnalyzePageContent(text, page_number) ==
  IF text = Txt.P_raises \/ text = <<>> THEN <<>>
  ELSE CHOOSE result \in
    {(IF Len(lines) < 3 THEN <<>>
      ELSE IF \E k \in 1..Len(page_patterns) : Len(found[k]) >= 2
      THEN LET k == SetMin({n \in 1..Len(page_patterns) : Len(found[n]) >= 2})
           IN  << [page_number |-> page_number,
                   confidence |-> PageConfidence(found[k], Len(lines)),
                   entries |-> found[k],
                   format_type |-> page_patterns[k].name,
                   method_used |-> "page_analysis"] >>
      ELSE IF Len(basic_entries) >= 3
      THEN << [page_number |-> page_number,
               confidence |-> 600000,
               entries |-> basic_entries,
               format_type |-> "basic_heuristic",
               method_used |-> "page_analysis"] >>
      ELSE <<>>) :
     lines \in {PageLines(text)},
     \* the entries each pattern yields (the first with two or more is used)
     found \in {<<PatternEntries(page_patterns[1], ls), PatternEntries(page_patterns[2], ls),
                  PatternEntries(page_patterns[3], ls), PatternEntries(page_patterns[4], ls),
                  PatternEntries(page_patterns[5], ls), PatternEntries(page_patterns[6], ls)>> :
                ls \in {PageLines(text)}},
     basic_entries \in {BasicTocDetection(ls) : ls \in {PageLines(text)}}} : TRUE

\* _analyze_combined_pages: no result (<<>>) or the multi-page result
AnalyzeCombinedPages(pages, num_pages) ==
  LET Part(k) ==
        CHOOSE es \in {(IF r # <<>> /\ r[1].confidence > 300000 THEN r[1].entries ELSE <<>>) :
                        r \in {AnalyzePageContent(pages[k], k)}} : TRUE
  IN  CHOOSE result \in
        {(IF Len(all_entries) >= 5
          THEN << [page_number |-> 0, confidence |-> 700000, entries |-> all_entries,
                   format_type |-> "multi_page", method_used |-> "combined_analysis"] >>
          ELSE <<>>) :
         all_entries \in {Flatten([k \in 1..num_pages |-> Part(k)])}} : TRUE

\* the results above 0.5 in their given order
PrioritizeResultsUnsorted(rs) ==
  SeqFilter(rs, {rs[r] : r \in {q \in 1..Len(rs) : rs[q].confidence > 500000}})

\* _prioritize_results: sorted by (confidence, number of entries), highest
\* first, equal keys in their given order; then those above 0.5
PrioritizeResults(rs) ==
  CHOOSE result \in
    {SeqFilter(sorted, {sorted[r] : r \in {q \in 1..Len(sorted) :
                                             sorted[q].confidence > 500000}}) :
       sorted \in {[r \in 1..Len(v) |-> v[ord[r]]] :
                   v \in {rs},
                   ord \in {StableOrder(Len(v), {ij \in (1..Len(v)) \X (1..Len(v)) :
                              \/ v[ij[1]].confidence > v[ij[2]].confidence
                              \/ /\ v[ij[1]].confidence = v[ij[2]].confidence
                                 /\ Len(v[ij[1]].entries) > Len(v[ij[2]].entries)}) :
                            v \in {rs}}}} : TRUE

DefaultMaxPages == 10

\* analyze_pdf with a page loop that ends at the first page whose extraction
\* raises
AnalyzePdfAborting(pages, max_pages) ==
  LET raising == {k \in 1..Len(pages) : pages[k] = Txt.P_raises}
      pages_to_check == Min(Min(max_pages, Len(pages)),
                            IF raising = {} THEN Len(pages) ELSE SetMin(raising) - 1)
      Part(k) ==
        CHOOSE rs \in {(IF r # <<>> /\ r[1].confidence > 0 THEN r ELSE <<>>) :
                        r \in {AnalyzePageContent(pages[k], k)}} : TRUE
  IN  PrioritizeResults(Flatten([k \in 1..pages_to_check |-> Part(k)]))

\* analyze_pdf on a PDF whose pages have the given texts
AnalyzePdf(pages, max_pages) ==
  LET pages_to_check == Min(max_pages, Len(pages))
      Part(k) ==
        CHOOSE rs \in {(IF r # <<>> /\ r[1].confidence > 0 THEN r ELSE <<>>) :
                        r \in {AnalyzePageContent(pages[k], k)}} : TRUE
  IN  CHOOSE result \in
        {PrioritizeResults(IF per_page # <<>> THEN per_page
                           ELSE AnalyzeCombinedPages(pages, pages_to_check)) :
         per_page \in {Flatten([k \in 1..pages_to_check |-> Part(k)])}} : TRUE

\* detect_and_parse_toc_pages: the results at or above the threshold
ValidResults(rs, threshold) ==
  CHOOSE valid \in
    {[r \in 1..Len(kept) |-> v[kept[r]]] :
       v \in {rs},
       kept \in {SeqFilter([r \in 1..Len(v) |-> r],
                           {r \in 1..Len(v) : v[r].confidence >= threshold}) :
                 v \in {rs}}} : TRUE

\* detect_and_parse_toc_pages: the entries of the results, in standard form
StandardEntries(rs) ==
  CHOOSE es \in
    {[i \in 1..Len(all_entries) |->
        [title |-> all_entries[i].title,
         pageNumber |-> all_entries[i].pageNumber,
         level |-> all_entries[i].level,
         confidence |-> all_entries[i].confidence,
         detection_method |-> Get(all_entries[i], "detection_method", "unknown")]] :
     all_entries \in {Flatten([r \in 1..Len(rs) |-> rs[r].entries])}} : TRUE

\* a removal of duplicates that compares titles only
RECURSIVE RemoveDuplicatesByTitle(_, _)
RemoveDuplicatesByTitle(entries, seen) ==
  IF entries = <<>> THEN <<>>
  ELSE LET key == Head(entries).title
       IN  IF key \in seen THEN RemoveDuplicatesByTitle(Tail(entries), seen)
           ELSE <<Head(entries)>> \o RemoveDuplicatesByTitle(Tail(entries), seen \cup {key})

\* detect_and_parse_toc_pages: an entry whose key was seen is dropped
RECURSIVE RemoveDuplicates(_, _)
RemoveDuplicates(entries, seen) ==
  IF entries = <<>> THEN <<>>
  ELSE LET key == <<Head(entries).title, Head(entries).pageNumber>>
       IN  IF key \in seen THEN RemoveDuplicates(Tail(entries), seen)
           ELSE <<Head(entries)>> \o RemoveDuplicates(Tail(entries), seen \cup {key})

\* a sort by pageNumber that puts equal pages in reverse order
SortByPageNumberUnstable(entries) ==
  LET ord == StableOrder(Len(entries),
                         {ij \in (1..Len(entries)) \X (1..Len(entries)) :
                            \/ entries[ij[1]].pageNumber < entries[ij[2]].pageNumber
                            \/ /\ entries[ij[1]].pageNumber = entries[ij[2]].pageNumber
                               /\ ij[1] > ij[2]})
  IN  [r \in 1..Len(entries) |-> entries[ord[r]]]

\* unique_entries.sort(key=lambda x: x['pageNumber'])
SortByPageNumber(entries) ==
  CHOOSE sorted \in
    {[r \in 1..Len(es) |-> es[ord[r]]] :
       es \in {entries},
       ord \in {StableOrder(Len(es), {ij \in (1..Len(es)) \X (1..Len(es)) :
                                       es[ij[1]].pageNumber < es[ij[2]].pageNumber}) :
                es \in {entries}}} : TRUE

(***************************************************************************)
(* generate_toc, step by step.  The headings offered to it are lists over  *)
(* HeadingPool of at most MaxHeadings dicts, and the two four-heading      *)
(* lists of the hierarchy scenario.                                        *)
(***************************************************************************)
MaxHeadings == 3

Hd(key, str, size, page, x, y, conf) ==
  [k \in {key, "page", "confidence", "detection_method", "font_size", "position"} |->
     CASE k = key -> str
       [] k = "page" -> page
       [] k = "confidence" -> conf
       [] k = "detection_method" -> <<"font_size">>
       [] k = "font_size" -> size
       [] k = "position" -> [x |-> x, y |-> y]]

HeadingPool ==
  { Hd("title", Txt.S_1Introduction, 18, 1, 0, 50, 800000),
    Hd("title", Txt.S_11Setup, 14, 2, 0, 50, 800000),
    Hd("text", Txt.S_1Introduction, 18, 1, 0, 50, 800000),
    Hd("text", Txt.S_11Setup, 14, 2, 0, 50, 800000),
    Hd("text", Txt.S_aItem, 14, 2, 40, 80, 800000),
    Hd("text", Txt.S_Overview, 10, 1, 30, 90, 750000),
    Hd("title", Txt.S_Notes, 10, 2, 30, 60, 900000),
    Hd("text", Txt.S_abc, 10, 3, 0, 20, 800000),
    Hd("title", Txt.S_Notes, 18, 1, 0, 10, 600000),
    [title |-> Txt.S_Notes, page |-> 1, confidence |-> 900000] }

\* the hierarchy scenario, its strings under the key named
Scenario(key) ==
  << Hd(key, Txt.S_1Introduction, 18, 1, 0, 50, 800000),
     Hd(key, Txt.S_11Setup, 14, 2, 0, 50, 800000),
     Hd(key, Txt.S_12Config, 14, 3, 0, 50, 800000),
     Hd(key, Txt.S_2Advanced, 18, 4, 0, 50, 800000) >>

\* the working list: the dicts of headings that sorted_idx names
Working == [r \in 1..Len(sorted_idx) |-> headings[sorted_idx[r]]]

\* no detector is at work
DetIdle ==
  /\ text_data = <<>>
  /\ confidence_threshold = 700000
  /\ det_pc = "idle"
  /\ det_font_stats = <<>>
  /\ det_out = <<>>

\* no page token is being resolved
PmIdle ==
  /\ page_num = <<>>
  /\ pm_title = <<>>
  /\ pm_format = "dot_leader"
  /\ pm_page = None
  /\ pm_entry = <<>>
  /\ pm_pc = "idle"

\* no PDF is being searched for contents pages
PgIdle ==
  /\ pdf_pages = <<>>
  /\ pg_threshold = 600000
  /\ page_result = [page_number |-> 0, result |-> <<>>]
  /\ results = <<>>
  /\ standard_entries = <<>>
  /\ unique_entries = <<>>
  /\ pg_out = <<>>
  /\ pg_pc = "idle"

\* no pattern matcher is at work
MtIdle ==
  /\ content_blocks = <<>>
  /\ adv_out = <<>>
  /\ ext_out = <<>>
  /\ mt_pc = "idle"

\* no confidence is being computed
CfIdle ==
  /\ cf_in = [fn |-> "none"]
  /\ cf_out = 0
  /\ cf_pc = "idle"

\* no list is being validated
ValIdle ==
  /\ val_toc = <<>>
  /\ val_report = [valid |-> TRUE, issues |-> <<>>]
  /\ val_pc = "idle"

\* no second run is under way
RunIdle ==
  /\ pipe_run = "idle"
  /\ first_out = [pc |-> "idle", toc |-> <<>>]

\* extract_pdf_toc is not being run
ExIdle ==
  /\ ex_outline = <<>>
  /\ auto_detect_toc = TRUE
  /\ toc_detection_available = TRUE
  /\ ex_bookmarks = <<>>
  /\ ex_out = <<>>
  /\ ex_pc = "idle"

\* no list of entries is being merged
MgIdle ==
  /\ merge_in = <<>>
  /\ merge_out = <<>>
  /\ mg_pc = "idle"

\* no generator is at work
GenIdle ==
  /\ headings = <<>>
  /\ max_level = DefaultMaxLevel
  /\ gen_pc = "idle"
  /\ sorted_idx = <<>>
  /\ tree = <<>>
  /\ toc = <<>>

GenInit ==
  /\ headings \in UNION {[1..n -> HeadingPool] : n \in 0..MaxHeadings}
                    \cup {Scenario("title"), Scenario("text")}
  /\ max_level \in 1..DefaultMaxLevel
  /\ gen_pc = "start"
  /\ sorted_idx = <<>>
  /\ tree = <<>>
  /\ toc = <<>>
  /\ DetIdle /\ PmIdle /\ PgIdle /\ MtIdle /\ CfIdle /\ ValIdle /\ RunIdle /\ ExIdle /\ MgIdle

\* generate_toc, lines 51-61: the confidence filter and the sort
GenFilterSort ==
  /\ gen_pc = "start"
  /\ LET keep == {i \in 1..Len(headings) : headings[i].confidence >= DefaultMinConfidence}
         filtered == SeqFilter([i \in 1..Len(headings) |-> i], keep)
         ord == StableOrder(Len(filtered),
                            {ab \in (1..Len(filtered)) \X (1..Len(filtered)) :
                               PageYLess(headings[filtered[ab[1]]], headings[filtered[ab[2]]])})
     IN  IF filtered = <<>>
         THEN /\ gen_pc' = "done"
              /\ sorted_idx' = <<>>
         ELSE /\ gen_pc' = "sorted"
              /\ sorted_idx' = [r \in 1..Len(filtered) |-> filtered[ord[r]]]
  /\ toc' = <<>>
  /\ UNCHANGED <<headings, max_level, tree, detVars, pmVars, pgVars, mtVars, cfVars,
                 valVars, runVars, exVars, mgVars>>

\* generate_toc, line 64: _determine_hierarchy writes into the caller's dicts
GenDetermine ==
  /\ gen_pc = "sorted"
  /\ LET leveled == DetermineHierarchy(Working, max_level)
     IN  headings' = [i \in 1..Len(headings) |->
                        IF \E r \in 1..Len(sorted_idx) : sorted_idx[r] = i
                        THEN leveled[CHOOSE r \in 1..Len(sorted_idx) : sorted_idx[r] = i]
                        ELSE headings[i]]
  /\ gen_pc' = "leveled"
  /\ UNCHANGED <<max_level, sorted_idx, tree, toc, detVars, pmVars, pgVars, mtVars, cfVars,
                 valVars, runVars, exVars, mgVars>>

\* generate_toc, line 67: _build_toc_hierarchy
GenBuild ==
  /\ gen_pc = "leveled"
  /\ LET built == BuildTocHierarchy(Working, max_level)
     IN  IF built.raised
         THEN gen_pc' = "raised" /\ tree' = tree
         ELSE gen_pc' = "built" /\ tree' = built.nodes
  /\ UNCHANGED <<headings, max_level, sorted_idx, toc, detVars, pmVars, pgVars, mtVars, cfVars,
                 valVars, runVars, exVars, mgVars>>

\* generate_toc, lines 70-72: _post_process_toc and the return
GenPostProcess ==
  /\ gen_pc = "built"
  /\ toc' = FlattenToc(tree)
  /\ gen_pc' = "done"
  /\ UNCHANGED <<headings, max_level, sorted_idx, tree, detVars, pmVars, pgVars, mtVars, cfVars,
                 valVars, runVars, exVars, mgVars>>

GenNext == GenFilterSort \/ GenDetermine \/ GenBuild \/ GenPostProcess

SpecGen == GenInit /\ [][GenNext]_vars

(***************************************************************************)
(* detect_headings on lists over ElementPool of at most MaxElements text   *)
(* elements, under the thresholds of Thresholds.                           *)
(***************************************************************************)
MaxElements == 3

El(text, size, page, x, y) ==
  [text |-> text, font_name |-> "Helvetica", font_size |-> size,
   x |-> x, y |-> y, page |-> page]

ElementPool ==
  { El(Txt.S_1Introduction, 18, 1, 0, 50),
    El(Txt.S_11Setup, 14, 1, 5, 50),
    El(Txt.S_INTRO, 18, 1, 0, 150),
    El(Txt.S_SomeTitle, 12, 2, 10, 50),
    El(Txt.S_PlainText, 10, 1, 0, 200),
    El(<<" ">>, 18, 2, 0, 120),
    El(<<" ", " ">> \o Txt.S_2Advanced \o <<" ">>, 18, 2, 0, 20),
    \* an element that also carries the nested position its heading will have
    [text |-> Txt.S_Summary, font_name |-> "Helvetica", font_size |-> 14,
     x |-> 0, y |-> 300, page |-> 2, position |-> [x |-> 0, y |-> 300]] }

\* a low threshold, the default (and 'academic_paper'), 'book', and two
\* thresholds outside [0, 1]
Thresholds == {400000, 700000, 800000, 1500000, -100000}

DetInit ==
  /\ text_data \in UNION {[1..n -> ElementPool] : n \in 0..MaxElements}
  /\ confidence_threshold \in Thresholds
  /\ det_pc = "start"
  /\ det_font_stats = <<>>
  /\ det_out = <<>>
  /\ GenIdle /\ PmIdle /\ PgIdle /\ MtIdle /\ CfIdle /\ ValIdle /\ RunIdle /\ ExIdle /\ MgIdle

\* HeadingDetector(confidence_threshold).detect_headings(text_data)
DetDetect ==
  /\ det_pc = "start"
  /\ det_font_stats' = IF text_data = <<>> THEN <<>> ELSE AnalyzeFontStatistics(text_data)
  /\ det_out' = DetectHeadings(text_data, confidence_threshold)
  /\ det_pc' = "done"
  /\ UNCHANGED <<text_data, confidence_threshold, genVars, pmVars, pgVars, mtVars, cfVars,
                 valVars, runVars, exVars, mgVars>>

DetNext == DetDetect

SpecDetect == DetInit /\ [][DetNext]_vars

(***************************************************************************)
(* detect_headings followed by generate_toc, run twice on the same list of *)
(* at most MaxPipeElements elements with one HeadingDetector and one       *)
(* TOCGenerator(): the second run either detects again or hands the        *)
(* heading dicts of the first run to generate_toc once more.               *)
(***************************************************************************)
MaxPipeElements == 3

PipeInit ==
  /\ text_data \in UNION {[1..n -> ElementPool] : n \in 0..MaxPipeElements}
                     \* a heading, a smaller heading and three lines of body text
                     \cup {<<El(Txt.S_1Introduction, 18, 1, 0, 50),
                              El(Txt.S_11Setup, 16, 2, 5, 50),
                              El(Txt.S_PlainText, 10, 1, 0, 200),
                              El(Txt.S_PlainText, 10, 1, 0, 200),
                              El(Txt.S_PlainText, 10, 1, 0, 200)>>}
  /\ confidence_threshold \in Thresholds \cap (0..1000000)
  /\ det_pc = "start"
  /\ det_font_stats = <<>>
  /\ det_out = <<>>
  /\ pipe_run = "first"
  /\ first_out = [pc |-> "idle", toc |-> <<>>]
  /\ GenIdle /\ PmIdle /\ PgIdle /\ MtIdle /\ CfIdle /\ ValIdle /\ ExIdle /\ MgIdle

\* generator.generate_toc(headings) is called with the list detect_headings
\* returned
PipeGenerate ==
  /\ det_pc = "done"
  /\ gen_pc = "idle"
  /\ headings' = det_out
  /\ gen_pc' = "start"
  /\ UNCHANGED <<max_level, sorted_idx, tree, toc, detVars, pmVars, pgVars, mtVars, cfVars,
                 valVars, runVars, exVars, mgVars>>

\* the first run is over; the second begins with detector.detect_headings on
\* the same elements
PipeDetectAgain ==
  /\ pipe_run = "first"
  /\ gen_pc \in {"done", "raised"}
  /\ first_out' = [pc |-> gen_pc, toc |-> toc]
  /\ pipe_run' = "redetect"
  /\ det_pc' = "start" /\ det_font_stats' = <<>> /\ det_out' = <<>>
  /\ headings' = <<>> /\ gen_pc' = "idle" /\ sorted_idx' = <<>> /\ tree' = <<>> /\ toc' = <<>>
  /\ UNCHANGED <<text_data, confidence_threshold, max_level, pmVars, pgVars, mtVars, cfVars,
                 valVars, exVars, mgVars>>

\* the first run is over; the second hands the same heading dicts, as the
\* first run left them, to generator.generate_toc
PipeGenerateAgain ==
  /\ pipe_run = "first"
  /\ gen_pc \in {"done", "raised"}
  /\ first_out' = [pc |-> gen_pc, toc |-> toc]
  /\ pipe_run' = "regenerate"
  /\ gen_pc' = "start" /\ sorted_idx' = <<>> /\ tree' = <<>> /\ toc' = <<>>
  /\ UNCHANGED <<headings, max_level, detVars, pmVars, pgVars, mtVars, cfVars, valVars,
                 exVars, mgVars>>

PipeNext ==
  \/ DetDetect \/ PipeGenerate
  \/ GenFilterSort \/ GenDetermine \/ GenBuild \/ GenPostProcess
  \/ PipeDetectAgain \/ PipeGenerateAgain

SpecPipeline == PipeInit /\ [][PipeNext]_vars

(***************************************************************************)
(* Properties of generate_toc.                                             *)
(***************************************************************************)
\* the leveled working list has every level in [0, max_level-1]
LevelsInRange ==
  \A r \in 1..Len(sorted_idx) :
     Has(Working[r], "level") /\ Working[r].level \in 0..(max_level - 1)

\* one entry per leveled heading, in the order of the working list, with
\* the heading's title, page, level, confidence and detection method
ExpectedToc == [r \in 1..Len(sorted_idx) |-> EntryOf(Working[r])]

\* C1: for every non-empty list of leveled headings with levels in
\* [0, max_level-1], sorted by (page, y), _build_toc_hierarchy followed by
\* _flatten_toc returns exactly one entry per heading, in input order, each
\* with its heading's level.
C1_BuildFlattenKeepsEntries ==
  (gen_pc \in {"raised", "done"} /\ sorted_idx # <<>> /\ LevelsInRange)
    => (gen_pc = "done" /\ toc = ExpectedToc)

\* C2: after _determine_hierarchy every heading's level is an integer in
\* [0, max_level-1], for every max_level >= 1 and whichever signal set it.
C2_LevelsWithinMaxLevel ==
  gen_pc \in {"leveled", "built", "raised", "done"} => LevelsInRange

\* the caller's list is the hierarchy scenario with its strings under key
IsScenario(key) ==
  /\ Len(headings) = 4
  /\ \A i \in 1..4 : \A k \in DOMAIN Scenario(key)[i] :
        Has(headings[i], k) /\ headings[i][k] = Scenario(key)[i][k]

\* C4: the four headings "1 Introduction" (18), "1.1 Setup" (14),
\* "1.2 Config" (14), "2 Advanced" (18) on increasing pages get the levels
\* 0, 1, 1, 0 and come back as the same four entries in the same order with
\* those levels, whether the string is in the title field or the text field.
C4_ScenarioLevels ==
  \A key \in {"title", "text"} :
     (IsScenario(key) /\ max_level = DefaultMaxLevel
        /\ gen_pc \in {"leveled", "built", "raised", "done"})
       => /\ [i \in 1..4 |-> headings[i].level] = <<0, 1, 1, 0>>
          /\ gen_pc # "raised"
          /\ gen_pc = "done" =>
               /\ [i \in 1..Len(toc) |-> toc[i].level] = <<0, 1, 1, 0>>
               /\ [i \in 1..Len(toc) |-> toc[i].title] =
                    [i \in 1..4 |-> Scenario(key)[i][key]]
               /\ [i \in 1..Len(toc) |-> toc[i].pageNumber] = <<1, 2, 3, 4>>

\* C14: generate_toc leaves the caller's list as it was: every heading
\* record keeps exactly its fields and values, none is added or changed.
C14_InputUnchanged == [][headings' = headings]_vars

\* C19: for every working list whose levels are in [0, max_level-1],
\* whatever the first level and whatever levels are skipped,
\* _build_toc_hierarchy never finds a placeholder on top of the stack and
\* finishes without raising.
C19_BuildNeverRaises ==
  (gen_pc \in {"built", "raised", "done"} /\ LevelsInRange) => gen_pc # "raised"

\* the level of the first numbering-pattern set, in the order 0, 1, 2, 3,
\* that the heading's title matches (None when there is none)
TitlePatternLevel(h) ==
  MatchNumberingPattern(StrStrip(Get(h, "title", Get(h, "text", <<>>))))

\* C20: every heading whose title matches a numbering-pattern set gets the
\* level of the first matching set, whatever its font size or indentation,
\* also when the title is under the key title as detect_headings writes it.
C20_PatternLevelOverrides ==
  gen_pc \in {"leveled", "built", "raised", "done"} =>
    \A r \in 1..Len(sorted_idx) :
       TitlePatternLevel(Working[r]) # None =>
         Working[r].level = TitlePatternLevel(Working[r])

\* C15: detection followed by generation, run twice on the same elements
\* with the same detector and generator (the second run detecting again or
\* taking the heading dicts of the first), ends both times the same way
\* with the same list: same entries in the same order, with the same
\* titles, pages, levels, confidences and detection methods.
C15_SecondRunSame ==
  (pipe_run \in {"redetect", "regenerate"} /\ gen_pc \in {"done", "raised"}) =>
     /\ gen_pc = first_out.pc
     /\ toc = first_out.toc

\* generate_toc has been run a second time on the dicts it had leveled and
\* returned two entries, one of them below the top level
C15_Witness ==
  /\ pipe_run = "regenerate" /\ gen_pc = "done"
  /\ Len(toc) >= 2 /\ toc = first_out.toc
  /\ \E i \in 1..Len(toc) : toc[i].level >= 1

(***************************************************************************)
(* Properties of detect_headings.                                          *)
(***************************************************************************)
\* the elements of text_data whose computed confidence reaches the threshold
Accepted ==
  {i \in 1..Len(text_data) :
     CalculateHeadingConfidence(text_data[i], AnalyzeFontStatistics(text_data))
       >= confidence_threshold}

\* heading r of the output was made from element i
MadeFrom(r, i) ==
  /\ det_out[r].title = StrStrip(text_data[i].text)
  /\ det_out[r].page = text_data[i].page
  /\ det_out[r].font_size = text_data[i].font_size
  /\ det_out[r].position = [x |-> text_data[i].x, y |-> text_data[i].y]
  /\ det_out[r].confidence =
       CalculateHeadingConfidence(text_data[i], AnalyzeFontStatistics(text_data))

\* C10: detect_headings returns one heading per element whose computed
\* confidence is >= confidence_threshold and no other heading, in ascending
\* order of (page, position.y, position.x); an empty element list gives an
\* empty list.
C10_DetectKeepsThresholdSorted ==
  det_pc = "done" =>
    /\ text_data = <<>> => det_out = <<>>
    /\ \E f \in [1..Len(det_out) -> Accepted] :
         /\ \A r, q \in 1..Len(det_out) : r # q => f[r] # f[q]
         /\ \A i \in Accepted : \E r \in 1..Len(det_out) : f[r] = i
         /\ \A r \in 1..Len(det_out) : MadeFrom(r, f[r])
    /\ \A r, q \in 1..Len(det_out) :
         r < q =>
           \/ det_out[r].page < det_out[q].page
           \/ /\ det_out[r].page = det_out[q].page
              /\ det_out[r].position.y < det_out[q].position.y
           \/ /\ det_out[r].page = det_out[q].page
              /\ det_out[r].position.y = det_out[q].position.y
              /\ det_out[r].position.x <= det_out[q].position.x

\* some but not all elements are accepted, and two accepted ones that differ
\* only in x come back in the opposite order to the one they were given in
C10_Witness ==
  /\ det_pc = "done"
  /\ Len(det_out) >= 2
  /\ Len(det_out) < Len(text_data)
  /\ \E i, j \in Accepted :
       /\ i < j
       /\ text_data[i].page = text_data[j].page
       /\ text_data[i].y = text_data[j].y
       /\ text_data[j].x < text_data[i].x


\* the font sizes of the elements, in the order given
FontSizes == [i \in 1..Len(text_data) |-> text_data[i].font_size]

\* at least two of the font sizes differ
DistinctSizes == \E i, j \in 1..Len(text_data) : FontSizes[i] # FontSizes[j]

\* C11: the heading threshold of _analyze_font_statistics is the median of
\* the font sizes plus their sample standard deviation when at least two
\* sizes differ, which is when the deviation is above 0, and the median
\* otherwise (one element, or all sizes equal).
C11_HeadingThreshold ==
  (det_pc = "done" /\ text_data # <<>>) =>
    /\ DistinctSizes <=> det_font_stats.std_size > 0
    /\ DistinctSizes =>
         det_font_stats.heading_threshold = Median(FontSizes) + Stdev(FontSizes)
    /\ ~DistinctSizes => det_font_stats.heading_threshold = Median(FontSizes)

\* three elements of two sizes: the threshold lies above the median
C11_Witness ==
  /\ det_pc = "done"
  /\ Len(text_data) = 3
  /\ DistinctSizes
  /\ det_font_stats.heading_threshold > det_font_stats.median_size

\* C13: a detector whose confidence threshold is outside [0, 1] is rejected
\* before any element is processed: it never gets to return a list.
C13_InvalidThresholdRejected ==
  confidence_threshold \notin 0..1000000 => det_pc # "done"

\* C25: for an element in the documented shape, with its y in its own y
\* field, the position factor is 0.3 when y is below 100 and 0 when y is
\* 100 or more, so a heading made of an element with y >= 100 never has
\* 'position' in its detection method.
C25_PositionFactor ==
  det_pc = "done" =>
    /\ \A i \in 1..Len(text_data) :
         ~Has(text_data[i], "position") =>
           ScorePosition(text_data[i]) = IF text_data[i].y < 100 THEN 300 ELSE 0
    /\ \A r \in 1..Len(det_out) :
         (det_out[r].position.y >= 100
            /\ \E i \in Accepted : MadeFrom(r, i) /\ ~Has(text_data[i], "position")) =>
           \A k \in 1..Len(det_out[r].detection_method) :
              det_out[r].detection_method[k] # "position"

\* C29: every heading confidence the detector computes is strictly below
\* 0.8 (at most 0.35*1.0 + 0.35*0.9 + 0.20*0.5 + 0.10*0.3 = 0.795), so with
\* a confidence_threshold of 0.8 or more, as in the 'book' preset,
\* detect_headings returns an empty list.
C29_ConfidenceBelowBookThreshold ==
  det_pc = "done" =>
    /\ \A i \in 1..Len(text_data) :
         CalculateHeadingConfidence(text_data[i], AnalyzeFontStatistics(text_data)) < 800000
    /\ confidence_threshold >= 800000 => det_out = <<>>

\* the detector of the 'book' preset has gone through elements one of which
\* reaches the maximum of 0.795, and returned nothing
C29_Witness ==
  /\ det_pc = "done"
  /\ confidence_threshold = 800000
  /\ det_out = <<>>
  /\ \E i \in 1..Len(text_data) :
       CalculateHeadingConfidence(text_data[i], det_font_stats) = 795000

(***************************************************************************)
(* _page_to_int and _parse_match on page tokens: every string of at most   *)
(* MaxTokenLen characters of an alphabet, and the documented examples.     *)
(***************************************************************************)
MaxTokenLen == 3

PmInit ==
  LET TokenAlphabet == {"0", "1", "2", "i", "v", "I", "a", "-", "+", " ", "_"}
  IN  page_num \in UNION {[1..n -> TokenAlphabet] : n \in 0..MaxTokenLen}
                     \cup {Txt.S_A12, Txt.S_B123, Txt.S_abc, Txt.S_12a}
  /\ pm_title \in {Txt.S_Intro, Txt.S_12Deep}
  /\ pm_format \in {"dot_leader", "ordinal_dots"}
  /\ pm_page = None
  /\ pm_entry = <<>>
  /\ pm_pc = "start"
  /\ GenIdle /\ DetIdle /\ PgIdle /\ MtIdle /\ CfIdle /\ ValIdle /\ RunIdle /\ ExIdle /\ MgIdle

\* self._page_to_int(page_num)
PmPageToInt ==
  /\ pm_pc = "start"
  /\ pm_page' = PageToInt(page_num)
  /\ pm_pc' = "resolved"
  /\ UNCHANGED <<page_num, pm_title, pm_format, pm_entry, genVars, detVars, pgVars,
                 mtVars, cfVars, valVars, runVars, exVars, mgVars>>

\* self._parse_match(match, format_type, line, line_num) for a match whose
\* groups are the title and the token (after a number, for ordinal_dots)
\* and whose line is the title, a space and the token
PmParseMatch ==
  /\ pm_pc = "resolved"
  /\ pm_entry' = ParseMatch(IF pm_format = "ordinal_dots"
                            THEN <<<<"1", ".">>, pm_title, page_num>>
                            ELSE <<pm_title, page_num>>,
                            compiled_patterns(pm_format)[1].pattern, pm_format,
                            pm_title \o <<" ">> \o page_num)
  /\ pm_pc' = "parsed"
  /\ UNCHANGED <<page_num, pm_title, pm_format, pm_page, genVars, detVars, pgVars,
                 mtVars, cfVars, valVars, runVars, exVars, mgVars>>

PmNext == PmPageToInt \/ PmParseMatch

SpecPageToInt == PmInit /\ [][PmNext]_vars

(***************************************************************************)
(* Properties of _page_to_int.                                             *)
(***************************************************************************)
\* the token is a run of ASCII digits
PlainInteger(token) == token # <<>> /\ \A i \in 1..Len(token) : token[i] \in Digit

LowerRoman == {<<"i">>, <<"i", "i">>, <<"i", "i", "i">>, <<"i", "v">>, <<"v">>}
RomanValue(token) ==
  CASE token = <<"i">> -> 1 [] token = <<"i", "i">> -> 2 [] token = <<"i", "i", "i">> -> 3
    [] token = <<"i", "v">> -> 4 [] token = <<"v">> -> 5

HasHyphen(token) == \E i \in 1..Len(token) : token[i] = "-"
\* what follows the first hyphen of the token
AfterHyphen(token) ==
  SubSeq(token,
         1 + (CHOOSE i \in 1..Len(token) :
                token[i] = "-" /\ \A j \in 1..(i - 1) : token[j] # "-"),
         Len(token))

\* the documented examples: "12" -> 12, "iv" -> 4, "A-12" -> 12, "abc" -> None
PageToIntExamples ==
  /\ page_num = <<"1", "2">> => pm_page = 12
  /\ page_num = <<"i", "v">> => pm_page = 4
  /\ page_num = Txt.S_A12 => pm_page = 12
  /\ page_num = Txt.S_abc => pm_page = None

MaxPages == 2

\* '\n'.join(lines)
RECURSIVE JoinLines(_)
JoinLines(lines) ==
  IF lines = <<>> THEN <<>>
  ELSE IF Len(lines) = 1 THEN lines[1]
  ELSE lines[1] \o <<"\n">> \o JoinLines(Tail(lines))

\* the pages a PDF of the model is made of
PagePool ==
  LET
      \* two dot-leader entries on three lines
      PageA == JoinLines(<<Txt.L_Aa5, Txt.L_Bb3, Txt.L_xx>>)
      \* three entries with short dot runs, one of them also on PageA
      PageB == JoinLines(<<Txt.L_Cc5, Txt.L_Dd3, Txt.L_Aa5>>)
      \* two dot-leader entries on five lines
      PageC == JoinLines(<<Txt.L_Aa5, Txt.L_Bb3, Txt.L_xx, Txt.L_xx, Txt.L_xx>>)
      \* three lines that only end in a number: one title on two pages, twice on one
      PageD == JoinLines(<<Txt.L_Intro8, Txt.L_Intro7, Txt.L_Intro8>>)
      \* too few lines
      PageE == JoinLines(<<Txt.L_xx, Txt.L_xx>>)
      \* a page 0 and the same entry twice
      PageF == JoinLines(<<Txt.L_x0, Txt.L_Aa5, Txt.L_Aa5>>)
      \* three entries on the same page number
      PageG == JoinLines(<<Txt.L_Zz5, Txt.L_Yy5, Txt.L_Aa5>>)
  IN  {PageA, PageB, PageC, PageD, PageE, PageF, PageG, Txt.P_raises}

\* the page of three dot-leader lines, with runs of dots dots long
DotLeaderPage(dots) ==
  LET run == [i \in 1..dots |-> "."]
  IN  JoinLines(<<Txt.L_Chapter1 \o run \o <<"1", "2">>,
                  Txt.L_Chapter2 \o run \o <<"3", "4">>,
                  Txt.L_Chapter3 \o run \o <<"5", "6">>>>)

DefaultThreshold == 600000

PgInit ==
  \* a page of three lines with the given entry line and no other entry
  LET LoneEntryPage(line) == JoinLines(<<line, Txt.L_xx, Txt.L_xx>>)
  IN
  /\ pdf_pages \in UNION {[1..n -> PagePool] : n \in 0..MaxPages}
                     \cup {<<DotLeaderPage(3)>>, <<DotLeaderPage(5)>>}
                     \* a page that raises between two pages of entries
                     \cup {<<JoinLines(<<Txt.L_Aa5, Txt.L_Bb3, Txt.L_xx>>), Txt.P_raises,
                              JoinLines(<<Txt.L_Zz5, Txt.L_Yy5, Txt.L_Aa5>>)>>}
                     \* five entries, one to a page
                     \cup {<<LoneEntryPage(Txt.L_Aa5), LoneEntryPage(Txt.L_Bb3),
                              LoneEntryPage(Txt.L_Zz5), LoneEntryPage(Txt.L_Yy5),
                              LoneEntryPage(Txt.L_Intro7)>>}
                     \* two entries on nine lines, then two on three
                     \cup {<<JoinLines(<<Txt.L_Aa5, Txt.L_Bb3, Txt.L_xx, Txt.L_xx, Txt.L_xx,
                                         Txt.L_xx, Txt.L_xx, Txt.L_xx, Txt.L_xx>>),
                              JoinLines(<<Txt.L_Aa5, Txt.L_Bb3, Txt.L_xx>>)>>}
                     \* an indented line and lines that begin with an outline number
                     \cup {<<JoinLines(<<<<" ", " ", " ", " ">> \o Txt.L_Outline2,
                                         Txt.L_Outline3, Txt.L_xx>>)>>}
  /\ pg_threshold \in {DefaultThreshold, 900000}
  /\ page_result = [page_number |-> 0, result |-> <<>>]
  /\ results = <<>>
  /\ standard_entries = <<>>
  /\ unique_entries = <<>>
  /\ pg_out = <<>>
  /\ pg_pc = "start"
  /\ GenIdle /\ DetIdle /\ PmIdle /\ MtIdle /\ CfIdle /\ ValIdle /\ RunIdle /\ ExIdle /\ MgIdle

\* results = analyzer.analyze_pdf(pdf_path, max_pages=10)
PgAnalyze ==
  /\ pg_pc = "start"
  /\ results' = AnalyzePdf(pdf_pages, DefaultMaxPages)
  /\ pg_pc' = "analyzed"
  /\ UNCHANGED <<pdf_pages, pg_threshold, page_result, standard_entries, unique_entries, pg_out,
                 genVars, detVars, pmVars, mtVars, cfVars, valVars, runVars, exVars,
                 mgVars>>

\* the results at or above the threshold are combined and put in standard
\* form; with none of them the function returns []
PgCollect ==
  /\ pg_pc = "analyzed"
  /\ IF ValidResults(results, pg_threshold) = <<>>
     THEN /\ pg_out' = <<>>
          /\ pg_pc' = "done"
          /\ UNCHANGED standard_entries
     ELSE /\ standard_entries' = StandardEntries(ValidResults(results, pg_threshold))
          /\ pg_pc' = "collected"
          /\ UNCHANGED pg_out
  /\ UNCHANGED <<pdf_pages, pg_threshold, page_result, results, unique_entries,
                 genVars, detVars, pmVars, mtVars, cfVars, valVars, runVars, exVars,
                 mgVars>>

\* the removal of duplicates
PgDedup ==
  /\ pg_pc = "collected"
  /\ unique_entries' = RemoveDuplicates(standard_entries, {})
  /\ pg_pc' = "deduped"
  /\ UNCHANGED <<pdf_pages, pg_threshold, page_result, results, standard_entries, pg_out,
                 genVars, detVars, pmVars, mtVars, cfVars, valVars, runVars, exVars,
                 mgVars>>

\* unique_entries.sort(...); return unique_entries
PgSort ==
  /\ pg_pc = "deduped"
  /\ unique_entries' = SortByPageNumber(unique_entries)
  /\ pg_out' = SortByPageNumber(unique_entries)
  /\ pg_pc' = "done"
  /\ UNCHANGED <<pdf_pages, pg_threshold, page_result, results, standard_entries,
                 genVars, detVars, pmVars, mtVars, cfVars, valVars, runVars, exVars,
                 mgVars>>

\* self._analyze_page_content(page, page_num) for one page of the PDF
PgPage ==
  /\ pg_pc = "start"
  /\ \E k \in 1..Len(pdf_pages) :
       page_result' = [page_number |-> k, result |-> AnalyzePageContent(pdf_pages[k], k)]
  /\ pg_pc' = "page"
  /\ UNCHANGED <<pdf_pages, pg_threshold, results, standard_entries, unique_entries, pg_out,
                 genVars, detVars, pmVars, mtVars, cfVars, valVars, runVars, exVars,
                 mgVars>>

PgNext == PgAnalyze \/ PgPage \/ PgCollect \/ PgDedup \/ PgSort

SpecPages == PgInit /\ [][PgNext]_vars

\* the lines of a page that give an entry of family k with a page number of
\* 1 or more and a confidence above 0.5, and the entries they give, in order
FamilyLines(k, lines) ==
  {n \in 1..Len(lines) :
     /\ FullMatch(page_patterns[k].re, lines[n], TRUE)
     /\ PageEntry(page_patterns[k], lines[n]).pageNumber >= 1
     /\ PageEntry(page_patterns[k], lines[n]).confidence > 500000}
FamilyEntries(k, lines) ==
  [r \in 1..Cardinality(FamilyLines(k, lines)) |->
     PageEntry(page_patterns[k],
               lines[CHOOSE n \in FamilyLines(k, lines) :
                       Cardinality({m \in FamilyLines(k, lines) : m < n}) = r - 1])]
\* the lines that end in an integer 1..999 after a title of more than three
\* characters
HeuristicLines(lines) ==
  {n \in 1..Len(lines) :
     \E d \in 1..Len(lines[n]) :
        /\ \A j \in d..Len(lines[n]) : lines[n][j] \in Digit
        /\ (d = 1 \/ lines[n][d - 1] \notin Digit)
        /\ DigitsValue(SubSeq(lines[n], d, Len(lines[n]))) \in 1..999
        /\ Len(StrStrip(SubSeq(lines[n], 1, d - 1))) > 3}

\* C22: _analyze_page_content gives no result for a page of fewer than three
\* non-blank lines; otherwise the result of the first family, in definition
\* order, with two or more entries that have a page number and a confidence
\* above 0.5, holding exactly those entries; with no such family a
\* basic-heuristic result exactly when three or more lines end in an integer
\* 1..999 after a title longer than three characters; otherwise no result.
C22_PageContentRule ==
  (pg_pc = "page" /\ pdf_pages[page_result.page_number] # Txt.P_raises) =>
    LET lines == PageLines(pdf_pages[page_result.page_number])
        result == page_result.result
        qualifying == {k \in 1..Len(page_patterns) : Cardinality(FamilyLines(k, lines)) >= 2}
    IN  IF Len(lines) < 3 THEN result = <<>>
        ELSE IF qualifying # {}
        THEN /\ result # <<>>
             /\ result[1].page_number = page_result.page_number
             /\ result[1].format_type = page_patterns[SetMin(qualifying)].name
             /\ result[1].entries = FamilyEntries(SetMin(qualifying), lines)
             /\ \A i \in 1..Len(result[1].entries) :
                   result[1].entries[i].detection_method = result[1].format_type
        ELSE IF Cardinality(HeuristicLines(lines)) >= 3
        THEN /\ result # <<>>
             /\ result[1].format_type = "basic_heuristic"
             /\ Len(result[1].entries) = Cardinality(HeuristicLines(lines))
             /\ \A i \in 1..Len(result[1].entries) :
                   result[1].entries[i].detection_method = "basic_heuristic"
        ELSE result = <<>>

\* a page on which two families have two or more such entries has been
\* analysed and the result is that of the earlier one
C22_Witness ==
  /\ pg_pc = "page"
  /\ page_result.result # <<>>
  /\ \E k \in 1..Len(page_patterns), j \in 1..Len(page_patterns) :
        /\ k < j
        /\ page_result.result[1].format_type = page_patterns[k].name
        /\ Cardinality(FamilyLines(j, PageLines(pdf_pages[page_result.page_number]))) >= 2

\* C23: the confidence of every page result _analyze_page_content returns,
\* of a format family or of the basic heuristic, is the page confidence of its
\* entries among the lines of the page: min(2 * entries / lines, 1.0), plus
\* 0.1 for consecutive page numbers, plus 0.05 for one detection method,
\* capped at 1.0.
C23_PageConfidenceFormula ==
  (pg_pc = "page" /\ page_result.result # <<>>) =>
    page_result.result[1].confidence =
      PageConfidence(page_result.result[1].entries,
                     Len(PageLines(pdf_pages[page_result.page_number])))

\* C24: the list analyze_pdf returns holds only results with a confidence
\* above 0.5, in the order of falling confidence and, at equal confidence,
\* of falling number of entries; and it holds every result above 0.5 that
\* _analyze_page_content gives for a page of the window.
C24_ResultsPrioritized ==
  pg_pc \in {"analyzed", "collected", "deduped", "done"} =>
    /\ \A r \in 1..Len(results) : results[r].confidence > 500000
    /\ \A r \in 1..Len(results), q \in 1..Len(results) :
          r < q =>
            \/ results[r].confidence > results[q].confidence
            \/ /\ results[r].confidence = results[q].confidence
               /\ Len(results[r].entries) >= Len(results[q].entries)
    /\ \A k \in 1..Min(DefaultMaxPages, Len(pdf_pages)) :
          LET found == AnalyzePageContent(pdf_pages[k], k)
          IN  (found # <<>> /\ found[1].confidence > 500000) =>
                \E r \in 1..Len(results) : results[r] = found[1]

\* analyze_pdf has put a later page with more entries before an earlier page
\* of the same confidence, or has left out the result of a page that is not
\* above 0.5
C24_Witness ==
  /\ pg_pc = "analyzed"
  /\ \/ \E r \in 1..Len(results), q \in 1..Len(results) :
           /\ r < q
           /\ results[r].page_number > results[q].page_number
           /\ results[r].confidence = results[q].confidence
           /\ Len(results[r].entries) > Len(results[q].entries)
     \/ /\ results # <<>>
        /\ \E k \in 1..Len(pdf_pages) :
              /\ AnalyzePageContent(pdf_pages[k], k) # <<>>
              /\ \A r \in 1..Len(results) : results[r].page_number # k

RECURSIVE ProcessOutlineItems(_, _)
ProcessOutlineItems(items, level) ==
  LET get_page_number(destination) ==
        IF Has(destination, "/Page") /\ Has(destination["/Page"], "num")
        THEN destination["/Page"].num + 1
        ELSE None
      OfItem(item) ==
        IF Has(item, "dict")
        THEN << [title |-> Get(item.dict, "/Title", <<>>),
                 pageNumber |-> get_page_number(item.dict),
                 level |-> level] >>
             \o (IF Has(item.dict, "/Kids")
                 THEN ProcessOutlineItems(item.dict["/Kids"], level + 1)
                 ELSE <<>>)
        ELSE IF Has(item, "list") THEN ProcessOutlineItems(item.list, level + 1)
        ELSE <<>>
  IN  IF items = <<>> THEN <<>>
      ELSE OfItem(Head(items)) \o ProcessOutlineItems(Tail(items), level)

ExInit ==
  LET Dest(title, num) == [dict |-> ("/Title" :> title) @@ ("/Page" :> [num |-> num])]
      \* a destination without a title whose page reference has no id
      Bare == [dict |-> ("/Page" :> [null |-> TRUE])]
      Parent(title, kids) == [dict |-> ("/Title" :> title) @@ ("/Kids" :> kids)]
      Outlines ==
        { <<>>,
          \* PdfReader(pdf_path) or reader.outline raises
          <<[raises |-> TRUE]>>,
          \* nested lists without a destination
          <<[list |-> <<>>], [other |-> TRUE]>>,
          <<Dest(Txt.S_Intro, 4)>>,
          <<Dest(Txt.S_Intro, 4), [list |-> <<Dest(Txt.S_Notes, 9),
                                               [list |-> <<Dest(Txt.S_Summary, 2)>>]>>]>>,
          <<Parent(Txt.S_Overview, <<Dest(Txt.S_Notes, 9)>>), Bare>> }
      Documents ==
        { <<>>,
          <<JoinLines(<<Txt.L_Aa5, Txt.L_Bb3, Txt.L_xx>>)>>,
          <<JoinLines(<<Txt.L_xx, Txt.L_xx>>), JoinLines(<<Txt.L_Zz5, Txt.L_Yy5, Txt.L_Aa5>>)>> }
  IN  /\ ex_outline \in Outlines
      /\ auto_detect_toc \in BOOLEAN
      /\ toc_detection_available \in BOOLEAN
      /\ ex_bookmarks = <<>>
      /\ ex_out = <<>>
      /\ ex_pc = "start"
      /\ pdf_pages \in Documents
      /\ pg_threshold = DefaultThreshold
      /\ page_result = [page_number |-> 0, result |-> <<>>]
      /\ results = <<>>
      /\ standard_entries = <<>>
      /\ unique_entries = <<>>
      /\ pg_out = <<>>
      /\ pg_pc = "idle"
      /\ GenIdle /\ DetIdle /\ PmIdle /\ MtIdle /\ CfIdle /\ ValIdle /\ RunIdle /\ MgIdle

\* extract_pdf_toc in which auto_detect_toc alone decides on the detection
ExBookmarksAlwaysDetect ==
  /\ ex_pc = "start"
  /\ ex_bookmarks' = IF ex_outline = <<[raises |-> TRUE]>> THEN <<>>
                     ELSE ProcessOutlineItems(ex_outline, 0)
  /\ IF auto_detect_toc /\ toc_detection_available
     THEN pg_pc' = "start" /\ ex_pc' = "detecting" /\ ex_out' = ex_out
     ELSE pg_pc' = pg_pc /\ ex_pc' = "done" /\ ex_out' = ex_bookmarks'
  /\ UNCHANGED <<ex_outline, auto_detect_toc, toc_detection_available,
                 pdf_pages, pg_threshold, page_result, results, standard_entries,
                 unique_entries, pg_out,
                 genVars, detVars, pmVars, mtVars, cfVars, valVars, runVars, mgVars>>

\* extract_pdf_toc, lines 38-53: toc = extract_bookmarks(pdf_path), [] when
\* reading raises or there is no outline; then either the call of
\* detect_and_parse_toc_pages or the return of toc
ExBookmarks ==
  /\ ex_pc = "start"
  /\ ex_bookmarks' = IF ex_outline = <<[raises |-> TRUE]>> THEN <<>>
                     ELSE ProcessOutlineItems(ex_outline, 0)
  /\ IF ex_bookmarks' = <<>> /\ auto_detect_toc /\ toc_detection_available
     THEN pg_pc' = "start" /\ ex_pc' = "detecting" /\ ex_out' = ex_out
     ELSE pg_pc' = pg_pc /\ ex_pc' = "done" /\ ex_out' = ex_bookmarks'
  /\ UNCHANGED <<ex_outline, auto_detect_toc, toc_detection_available,
                 pdf_pages, pg_threshold, page_result, results, standard_entries,
                 unique_entries, pg_out,
                 genVars, detVars, pmVars, mtVars, cfVars, valVars, runVars, mgVars>>

\* detect_and_parse_toc_pages has returned; extract_pdf_toc returns its list
ExReturn ==
  /\ ex_pc = "detecting"
  /\ pg_pc = "done"
  /\ ex_out' = pg_out
  /\ ex_pc' = "done"
  /\ UNCHANGED <<ex_outline, auto_detect_toc, toc_detection_available, ex_bookmarks,
                 genVars, detVars, pmVars, pgVars, mtVars, cfVars, valVars, runVars,
                 mgVars>>

\* something raises inside detect_and_parse_toc_pages: it raises in turn
\* (line 158) and extract_pdf_toc returns [] (lines 55-58)
ExDetectRaises ==
  /\ ex_pc = "detecting"
  /\ pg_pc \in {"start", "analyzed", "collected", "deduped"}
  /\ pg_pc' = "raised"
  /\ ex_out' = <<>>
  /\ ex_pc' = "done"
  /\ UNCHANGED <<ex_outline, auto_detect_toc, toc_detection_available, ex_bookmarks,
                 pdf_pages, pg_threshold, page_result, results, standard_entries,
                 unique_entries, pg_out,
                 genVars, detVars, pmVars, mtVars, cfVars, valVars, runVars, mgVars>>

ExNext ==
  \/ ExBookmarks
  \/ PgAnalyze \/ PgCollect \/ PgDedup \/ PgSort
  \/ ExReturn \/ ExDetectRaises

SpecExtract == ExInit /\ [][ExNext]_vars

(***************************************************************************)
(* TOCPatternMatcher.extract_entries_advanced on at most MaxBlocks content *)
(* blocks, and extract_entries on one block and format.                    *)
(***************************************************************************)
MaxBlocks == 2

MtInit ==
  \* the blocks of text the matcher is given
  LET BlockPool ==
        {Txt.B_Introduction0, Txt.B_Methods12, Txt.B_DotLeader, Txt.B_DotLeader0,
         Txt.B_Conclusion, Txt.B_Results, Txt.B_Ordinal, Txt.B_Outline}
  IN  content_blocks \in UNION {[1..n -> BlockPool] : n \in 0..MaxBlocks}
  /\ adv_out = <<>>
  /\ ext_out = <<>>
  /\ mt_pc = "start"
  /\ GenIdle /\ DetIdle /\ PmIdle /\ PgIdle /\ CfIdle /\ ValIdle /\ RunIdle /\ ExIdle /\ MgIdle

\* matcher.extract_entries_advanced(content_blocks)
MtAdvanced ==
  /\ mt_pc = "start"
  /\ adv_out' = ExtractEntriesAdvanced(content_blocks)
  /\ mt_pc' = "advanced"
  /\ UNCHANGED <<content_blocks, ext_out, genVars, detVars, pmVars, pgVars, cfVars, valVars,
                 runVars, exVars, mgVars>>

\* matcher.extract_entries(block, format_type) for one of the blocks
MtExtract ==
  /\ mt_pc = "start"
  /\ \E b \in 1..Len(content_blocks), f \in 1..Len(TOCFormats) :
       ext_out' = ExtractEntries(content_blocks[b], TOCFormats[f])
  /\ mt_pc' = "extracted"
  /\ UNCHANGED <<content_blocks, adv_out, genVars, detVars, pmVars, pgVars, cfVars, valVars,
                 runVars, exVars, mgVars>>

MtNext == MtAdvanced \/ MtExtract

SpecMatch == MtInit /\ [][MtNext]_vars

\* C28: extract_entries returns at most one entry per input line: for the
\* block it was given, no line is the raw_line of more entries than the
\* number of times the line occurs in the block.
C28_OneEntryPerLine ==
  mt_pc = "extracted" =>
    \E b \in 1..Len(content_blocks) :
       \A k \in 1..Len(ext_out) :
          Cardinality({i \in 1..Len(ext_out) : ext_out[i].raw_line = ext_out[k].raw_line})
            <= Cardinality({n \in 1..Len(SplitLines(content_blocks[b])) :
                              SplitLines(content_blocks[b])[n] = ext_out[k].raw_line})

\* C21: an entry of a matched line that begins with a numeric outline of
\* k >= 2 parts has level max(k - 1, leading whitespace // 4) clamped to 3,
\* so the unindented line "1.2.3 Title ... 12" yields level 2.
C21_OutlineLevel ==
  mt_pc = "extracted" =>
    \A k \in 1..Len(ext_out) :
       LET line == ext_out[k].raw_line
           stripped == StrStrip(line)
           numEnds == Ends(<<Dg, Grp(<< <<Ch("."), Dg>> >>, 0, Inf)>>, stripped, {0}, FALSE)
           parts == CountCh(Slice(stripped, 0, SetMax(numEnds)), ".") + 1
       IN  (numEnds # {} /\ parts >= 2) =>
             ext_out[k].level = Min(Max(parts - 1, (Len(line) - Len(stripped)) \div 4), 3)

\* C5: every entry the pattern matcher emits, from extract_entries and from
\* extract_entries_advanced with its special-pattern fallback, has a
\* pageNumber that is a positive integer.
C5_PageNumbersPositive ==
  /\ \A n \in 1..Len(adv_out) : adv_out[n].pageNumber \in Nat \ {0}
  /\ \A n \in 1..Len(ext_out) : ext_out[n].pageNumber \in Nat \ {0}

(***************************************************************************)
(* Properties of detect_and_parse_toc_pages.                               *)
(***************************************************************************)
\* the key entries are compared by
EntryKey(e) == <<e.title, e.pageNumber>>

\* the positions in standard_entries of the first entry with each key
FirstOccurrences ==
  {i \in 1..Len(standard_entries) :
     \A j \in 1..(i - 1) : EntryKey(standard_entries[j]) # EntryKey(standard_entries[i])}

\* C6: the removal of duplicates keeps, for each distinct (title,
\* pageNumber), exactly the first entry collected with it, and keeps the
\* survivors in the order they were collected in.
C6_DedupKeepsFirst ==
  pg_pc = "deduped" =>
    /\ Len(unique_entries) = Cardinality(FirstOccurrences)
    /\ \A r \in 1..Len(unique_entries) :
         unique_entries[r] =
           standard_entries[CHOOSE i \in FirstOccurrences :
                              Cardinality({j \in FirstOccurrences : j < i}) = r - 1]

\* duplicates were removed, one of them an entry that differs from the one
\* kept in its confidence or detection method
C6_Witness ==
  /\ pg_pc = "deduped"
  /\ Len(unique_entries) < Len(standard_entries)
  /\ \E i, j \in 1..Len(standard_entries) :
       /\ i < j
       /\ EntryKey(standard_entries[i]) = EntryKey(standard_entries[j])
       /\ standard_entries[i] # standard_entries[j]

\* where the entries with the key of e were first collected
FirstCollected(e) ==
  SetMin({i \in 1..Len(standard_entries) : EntryKey(standard_entries[i]) = EntryKey(e)})

\* the entries of the results at or above the threshold, result by result
CollectedKeys ==
  LET valid == SeqFilter([r \in 1..Len(results) |-> r],
                         {r \in 1..Len(results) : results[r].confidence >= pg_threshold})
      RECURSIVE From(_)
      From(k) == IF k > Len(valid) THEN <<>>
                 ELSE [i \in 1..Len(results[valid[k]].entries) |->
                         EntryKey(results[valid[k]].entries[i])] \o From(k + 1)
  IN  From(1)

\* C7: the returned list is in ascending order of pageNumber, and entries
\* with the same pageNumber are in the order they were collected in: result
\* by result in the prioritized order, then in the order within the result.
C7_SortedByPageStable ==
  pg_pc = "done" =>
    /\ \A r \in 1..Len(pg_out) :
         \E i \in 1..Len(standard_entries) : standard_entries[i] = pg_out[r]
    /\ pg_out # <<>> =>
         [i \in 1..Len(standard_entries) |-> EntryKey(standard_entries[i])] = CollectedKeys
    /\ \A r, q \in 1..Len(pg_out) :
         r < q =>
           \/ pg_out[r].pageNumber < pg_out[q].pageNumber
           \/ /\ pg_out[r].pageNumber = pg_out[q].pageNumber
              /\ FirstCollected(pg_out[r]) < FirstCollected(pg_out[q])

\* the returned list has two titles on one page number, and the sort had to
\* move an entry collected after an entry of a higher page number
C7_Witness ==
  /\ pg_pc = "done"
  /\ \E r, q \in 1..Len(pg_out) :
       r < q /\ pg_out[r].pageNumber = pg_out[q].pageNumber
  /\ \E i, j \in 1..Len(standard_entries) :
       i < j /\ standard_entries[i].pageNumber > standard_entries[j].pageNumber

\* the PDF is the single page of three dot-leader lines
IsDotLeaderScenario ==
  /\ pdf_pages \in {<<DotLeaderPage(3)>>, <<DotLeaderPage(5)>>}
  /\ pg_threshold = DefaultThreshold

\* C9: for the single page "Chapter 1 Introduction...12", "Chapter 2
\* Methods...34", "Chapter 3 Conclusion...56" (three or more dots each) and
\* the default threshold, exactly three entries come back, with page numbers
\* 12, 34, 56 in that order, level 0 and detection method dot_leader.
C9_DotLeaderScenario ==
  (IsDotLeaderScenario /\ pg_pc = "done") =>
    /\ Len(pg_out) = 3
    /\ [i \in 1..Len(pg_out) |-> pg_out[i].pageNumber] = <<12, 34, 56>>
    /\ \A i \in 1..Len(pg_out) :
         pg_out[i].level = 0 /\ pg_out[i].detection_method = "dot_leader"

\* the scenario has run to its end and returned entries
C9_Witness ==
  /\ IsDotLeaderScenario
  /\ pg_pc = "done"
  /\ pdf_pages = <<DotLeaderPage(3)>>
  /\ pg_out # <<>>

\* the pages of the PDF whose extraction raises
RaisingPages == {k \in 1..Len(pdf_pages) : pdf_pages[k] = Txt.P_raises}

\* the results of the pages that qualify, each analysed on its own, that
\* pass the final filter
QualifiedResults ==
  {r[1] : r \in {rr \in {AnalyzePageContent(pdf_pages[k], k) :
                           k \in (1..Min(DefaultMaxPages, Len(pdf_pages))) \ RaisingPages} :
                   rr # <<>> /\ rr[1].confidence > 500000}}

\* C16: a page whose extraction raises is skipped and does not end the scan:
\* the results of all qualifying pages, before and after the failing page,
\* are in the list analyze_pdf returns, and no result is of a failing page.
C16_RaisingPageSkipped ==
  pg_pc \notin {"start", "page"} =>
    /\ QualifiedResults \subseteq {results[r] : r \in 1..Len(results)}
    /\ \A r \in 1..Len(results) : results[r].page_number \notin RaisingPages

\* a PDF whose second page raises has been analysed, and the results of its
\* first and third page are both returned
C16_Witness ==
  /\ pg_pc = "analyzed"
  /\ Len(pdf_pages) = 3 /\ RaisingPages = {2}
  /\ {results[r].page_number : r \in 1..Len(results)} = {1, 3}

\* the candidate entries of a page: those of the first pattern that yields
\* any on its lines, else those of the basic heuristic
PageCandidates(text) ==
  IF text = Txt.P_raises \/ text = <<>> THEN <<>>
  ELSE CHOOSE es \in
    {(IF \E k \in 1..Len(page_patterns) : found[k] # <<>>
      THEN found[SetMin({n \in 1..Len(page_patterns) : found[n] # <<>>})]
      ELSE basic_entries) :
     found \in {[k \in 1..Len(page_patterns) |-> PatternEntries(page_patterns[k], ls)] :
                ls \in {PageLines(text)}},
     basic_entries \in {BasicTocDetection(ls) : ls \in {PageLines(text)}}} : TRUE

\* no page of the window qualifies on its own
NoPageQualifies ==
  \A k \in 1..Min(DefaultMaxPages, Len(pdf_pages)) : AnalyzePageContent(pdf_pages[k], k) = <<>>

\* the candidate entries of the pages of the window, in page order
AllCandidates ==
  Flatten([k \in 1..Min(DefaultMaxPages, Len(pdf_pages)) |-> PageCandidates(pdf_pages[k])])

\* C18: when no page of the window qualifies on its own and the candidate
\* entries of its pages together are five or more, analyze_pdf returns
\* exactly one result, with page_number 0, confidence 0.7 and format_type
\* "multi_page", holding those entries.
C18_CombinedScan ==
  (pg_pc \notin {"start", "page"} /\ NoPageQualifies /\ Len(AllCandidates) >= 5) =>
     /\ Len(results) = 1
     /\ results[1].page_number = 0
     /\ results[1].confidence = 700000
     /\ results[1].format_type = "multi_page"
     /\ results[1].entries = AllCandidates

\* reading the outline of the PDF raises
OutlineRaises == ex_outline = <<[raises |-> TRUE]>>

\* the bookmarks come first, page detection is run only after bookmark
\* extraction returned no entries and with auto_detect_toc true, and when
\* there are bookmarks exactly their entries are returned, without detection
BookmarksBeforeDetection ==
  /\ pg_pc # "idle" => (ex_pc # "start" /\ ex_bookmarks = <<>> /\ auto_detect_toc)
  /\ (ex_pc = "done" /\ ex_bookmarks # <<>>) => (ex_out = ex_bookmarks /\ pg_pc = "idle")
  /\ (ex_pc # "start"
        /\ [i \in 1..Len(ex_outline) |-> DOMAIN ex_outline[i]] = <<{"dict"}, {"list"}>>) =>
       ex_bookmarks = << [title |-> Txt.S_Intro, pageNumber |-> 5, level |-> 0],
                         [title |-> Txt.S_Notes, pageNumber |-> 10, level |-> 1],
                         [title |-> Txt.S_Summary, pageNumber |-> 3, level |-> 2] >>

MaxStatElements == 2
MaxConfEntries == 3
MaxTotalLines == 4

CfInit ==
  LET \* titles of no, few and many characters, with and without numbering
      TitlePool ==
        {<<>>, Txt.T_1a, Txt.T_LongNumbered, Txt.T_Deep, Txt.T_intro, Txt.S_Intro,
         Txt.S_introduction, Txt.S_1Introduction}
      \* entries as _calculate_page_confidence reads them
      ConfEntryPool ==
        {[pageNumber |-> 1, detection_method |-> "dot_leader"],
         [pageNumber |-> 2, detection_method |-> "dot_leader"],
         [pageNumber |-> 7, detection_method |-> "basic_heuristic"],
         [pageNumber |-> None, detection_method |-> "dot_leader"]}
  IN cf_in \in
       {[fn |-> "heading", element |-> e, elements |-> es] :
          e \in ElementPool, es \in UNION {[1..n -> ElementPool] : n \in 0..MaxStatElements}}
       \cup {[fn |-> "page_entry", entry |-> [title |-> t, raw_line |-> t \o suffix],
              pattern_name |-> page_patterns[n].name] :
               t \in TitlePool, suffix \in {<<>>, <<".", ".", ".", "1", "2">>},
               n \in 1..Len(page_patterns)}
       \cup {[fn |-> "matcher_entry", title |-> t, page_token |-> <<"1", "2">>,
              line |-> t \o <<".", ".", ".", "1", "2">>, format_type |-> TOCFormats[f]] :
               t \in TitlePool, f \in 1..Len(TOCFormats)}
       \cup {[fn |-> "page", entries |-> es, total_lines |-> n] :
               es \in UNION {[1..k -> ConfEntryPool] : k \in 0..MaxConfEntries},
               n \in 0..MaxTotalLines}
  /\ cf_out = 0
  /\ cf_pc = "start"
  /\ GenIdle /\ DetIdle /\ PmIdle /\ PgIdle /\ MtIdle /\ ValIdle /\ RunIdle /\ ExIdle /\ MgIdle

\* HeadingDetector._calculate_heading_confidence(element, font_stats)
CfHeading ==
  /\ cf_pc = "start" /\ cf_in.fn = "heading"
  /\ cf_out' = CalculateHeadingConfidence(cf_in.element, AnalyzeFontStatistics(cf_in.elements))
  /\ cf_pc' = "done"
  /\ UNCHANGED <<cf_in, genVars, detVars, pmVars, pgVars, mtVars, valVars, runVars, exVars,
                 mgVars>>

\* TOCPAGEAnalyzer._calculate_entry_confidence(entry, match, pattern_name)
CfPageEntry ==
  /\ cf_pc = "start" /\ cf_in.fn = "page_entry"
  /\ cf_out' = PageEntryConfidence(cf_in.entry, cf_in.pattern_name)
  /\ cf_pc' = "done"
  /\ UNCHANGED <<cf_in, genVars, detVars, pmVars, pgVars, mtVars, valVars, runVars, exVars,
                 mgVars>>

\* TOCPatternMatcher._calculate_entry_confidence(title, page_num, line, format_type)
CfMatcherEntry ==
  /\ cf_pc = "start" /\ cf_in.fn = "matcher_entry"
  /\ cf_out' = MatcherEntryConfidence(cf_in.title, cf_in.page_token, cf_in.line,
                                      cf_in.format_type)
  /\ cf_pc' = "done"
  /\ UNCHANGED <<cf_in, genVars, detVars, pmVars, pgVars, mtVars, valVars, runVars, exVars,
                 mgVars>>

\* TOCPAGEAnalyzer._calculate_page_confidence(entries, total_lines)
CfPage ==
  /\ cf_pc = "start" /\ cf_in.fn = "page"
  /\ cf_out' = PageConfidence(cf_in.entries, cf_in.total_lines)
  /\ cf_pc' = "done"
  /\ UNCHANGED <<cf_in, genVars, detVars, pmVars, pgVars, mtVars, valVars, runVars, exVars,
                 mgVars>>

CfNext == CfHeading \/ CfPageEntry \/ CfMatcherEntry \/ CfPage

SpecConf == CfInit /\ [][CfNext]_vars

\* C3: the heading confidence, the two per-entry confidences and the page
\* confidence all lie in [0, 1] (0..1000000 millionths), whatever the input.
C3_ConfidenceInUnitInterval ==
  cf_pc = "done" => cf_out \in 0..1000000

\* a page confidence whose ratio term is already 1 and which earns the bonus
\* for a single detection method: the last clamp is what keeps it at 1
C3_Witness ==
  /\ cf_pc = "done"
  /\ cf_in.fn = "page"
  /\ Len(cf_in.entries) >= 2
  /\ 2 * Len(cf_in.entries) >= cf_in.total_lines
  /\ \A i \in 1..Len(cf_in.entries) :
       cf_in.entries[i].detection_method = cf_in.entries[1].detection_method
  /\ cf_out = 1000000

(***************************************************************************)
(* TOCGenerator.validate_toc_consistency on lists of at most MaxTocLen     *)
(* entries.                                                                *)
(***************************************************************************)
MaxTocLen == 3

\* a validation whose page test also reports a page equal to the previous one
ValidateTocConsistencyNotAfter(entries, min_confidence) ==
  IF entries = <<>> THEN [valid |-> TRUE, issues |-> <<>>]
  ELSE LET prev_page(i) == IF i = 1 THEN 0 ELSE entries[i - 1].pageNumber
           prev_level(i) == IF i = 1 THEN -1 ELSE entries[i - 1].level
           Issue(type, severity, i) == [type |-> type, severity |-> severity, index |-> i - 1]
           issues == Flatten([i \in 1..Len(entries) |->
                        (IF entries[i].pageNumber <= prev_page(i)
                         THEN <<Issue("page_order", "warning", i)>> ELSE <<>>)
                        \o (IF entries[i].level > prev_level(i) + 1
                            THEN <<Issue("level_gap", "info", i)>> ELSE <<>>)
                        \o (IF entries[i].confidence < min_confidence
                            THEN <<Issue("low_confidence", "warning", i)>> ELSE <<>>)])
       IN  [valid |-> \A k \in 1..Len(issues) : issues[k].severity # "error",
            issues |-> issues,
            confidence |-> SeqSum([i \in 1..Len(entries) |-> entries[i].confidence])
                             \div Len(entries)]

\* validate_toc_consistency: the issues of each entry in turn (page_order,
\* level_gap, low_confidence), each with the entry's index counted from 0;
\* the message of an issue is left out.  confidence is the mean, in
\* millionths.
ValidateTocConsistency(entries, min_confidence) ==
  IF entries = <<>> THEN [valid |-> TRUE, issues |-> <<>>]
  ELSE LET prev_page(i) == IF i = 1 THEN 0 ELSE entries[i - 1].pageNumber
           prev_level(i) == IF i = 1 THEN -1 ELSE entries[i - 1].level
           Issue(type, severity, i) == [type |-> type, severity |-> severity, index |-> i - 1]
           issues == Flatten([i \in 1..Len(entries) |->
                        (IF entries[i].pageNumber < prev_page(i)
                         THEN <<Issue("page_order", "warning", i)>> ELSE <<>>)
                        \o (IF entries[i].level > prev_level(i) + 1
                            THEN <<Issue("level_gap", "info", i)>> ELSE <<>>)
                        \o (IF entries[i].confidence < min_confidence
                            THEN <<Issue("low_confidence", "warning", i)>> ELSE <<>>)])
       IN  [valid |-> \A k \in 1..Len(issues) : issues[k].severity # "error",
            issues |-> issues,
            confidence |-> SeqSum([i \in 1..Len(entries) |-> entries[i].confidence])
                             \div Len(entries)]

\* the lists handed over: entries on four pages, at two levels, above and
\* below min_confidence
ValInit ==
  LET TocEntryPool ==
        {[title |-> Txt.S_Intro, pageNumber |-> pg, level |-> lv, confidence |-> cf] :
           pg \in {0, 3, 5, 8}, lv \in {0, 2}, cf \in {500000, 900000}}
  IN  /\ val_toc \in UNION {[1..n -> TocEntryPool] : n \in 0..MaxTocLen}
      /\ val_report = [valid |-> TRUE, issues |-> <<>>]
      /\ val_pc = "start"
      /\ GenIdle /\ DetIdle /\ PmIdle /\ PgIdle /\ MtIdle /\ CfIdle /\ RunIdle /\ ExIdle /\ MgIdle

\* TOCGenerator().validate_toc_consistency(toc)
ValValidate ==
  /\ val_pc = "start"
  /\ val_report' = ValidateTocConsistency(val_toc, DefaultMinConfidence)
  /\ val_pc' = "done"
  /\ UNCHANGED <<val_toc, genVars, detVars, pmVars, pgVars, mtVars, cfVars, runVars, exVars,
                 mgVars>>

ValNext == ValValidate

SpecValidate == ValInit /\ [][ValNext]_vars

\* the issues of the given type that the report holds for index i
IssuesAt(type, i) ==
  {k \in 1..Len(val_report.issues) :
     val_report.issues[k].type = type /\ val_report.issues[k].index = i}

\* C12: the report holds a page_order issue with index i exactly for the
\* entries i whose pageNumber is less than that of entry i-1, never for the
\* first entry; for the pages 5, 3, 8 there is one at index 1 and none at
\* index 0 or 2.
C12_PageOrderIssues ==
  val_pc = "done" =>
    /\ \A i \in 0..(Len(val_toc) - 1) :
         Cardinality(IssuesAt("page_order", i)) =
           IF i >= 1 /\ val_toc[i + 1].pageNumber < val_toc[i].pageNumber THEN 1 ELSE 0
    /\ \A k \in 1..Len(val_report.issues) :
         val_report.issues[k].index \in 0..(Len(val_toc) - 1)
    /\ [i \in 1..Len(val_toc) |-> val_toc[i].pageNumber] = <<5, 3, 8>> =>
         /\ IssuesAt("page_order", 1) # {}
         /\ IssuesAt("page_order", 0) = {} /\ IssuesAt("page_order", 2) = {}

\* the list with the pages 5, 3, 8 has been validated
C12_Witness ==
  /\ val_pc = "done"
  /\ [i \in 1..Len(val_toc) |-> val_toc[i].pageNumber] = <<5, 3, 8>>
  /\ IssuesAt("page_order", 1) # {}

\* C27: the report holds a level_gap issue with index i exactly for the
\* entries i that have a previous entry and whose level is more than one
\* above that entry's level; the first entry is never given one.
C27_LevelGapIssues ==
  val_pc = "done" =>
    \A i \in 0..(Len(val_toc) - 1) :
       Cardinality(IssuesAt("level_gap", i)) =
         IF i >= 1 /\ val_toc[i + 1].level > val_toc[i].level + 1 THEN 1 ELSE 0

(***************************************************************************)
(* TOCPatternMatcher._merge_overlapping_entries on lists of at most        *)
(* MaxMergeLen entries.                                                    *)
(***************************************************************************)
MaxMergeLen == 3

\* the lists handed over: titles that contain one another, of five
\* characters and of more, and a title without a word character
MgInit ==
  LET MergeTitles == {Txt.S_Intro, Txt.S_introduction, Txt.S_Summary, Txt.S_12Deep,
                      <<".", ".", ".">>, Txt.T_intro \o <<" ", "-">>}
      MergePool == {[title |-> t, pageNumber |-> 4] : t \in MergeTitles}
  IN  /\ merge_in \in UNION {[1..n -> MergePool] : n \in 0..MaxMergeLen}
      /\ merge_out = <<>>
      /\ mg_pc = "start"
      /\ GenIdle /\ DetIdle /\ PmIdle /\ PgIdle /\ MtIdle /\ CfIdle /\ ValIdle /\ RunIdle
      /\ ExIdle

\* matcher._merge_overlapping_entries(entries)
MgMerge ==
  /\ mg_pc = "start"
  /\ merge_out' = MergeOverlappingEntries(merge_in)
  /\ mg_pc' = "done"
  /\ UNCHANGED <<merge_in, genVars, detVars, pmVars, pgVars, mtVars, cfVars, valVars,
                 runVars, exVars>>

MgNext == MgMerge

SpecMerge == MgInit /\ [][MgNext]_vars

\* the entries of merge_in from entry k on that are kept when an entry is
\* skipped exactly for being a substring of, or containing, the normalized
\* title, longer than 5 characters, of an entry accepted before
RECURSIVE KeptAsStated(_, _)
KeptAsStated(k, accepted) ==
  IF k > Len(merge_in) THEN <<>>
  ELSE LET n == NormTitle(merge_in[k].title)
           skip == \E a \in accepted : Len(a) > 5 /\ (IsSubstr(n, a) \/ IsSubstr(a, n))
       IN  IF ~skip /\ n # <<>>
           THEN <<merge_in[k]>> \o KeptAsStated(k + 1, accepted \cup {n})
           ELSE KeptAsStated(k + 1, accepted)

\* C26: _merge_overlapping_entries goes through the entries in order and
\* skips an entry exactly when its normalized title is a substring of, or
\* contains, the normalized title of an entry accepted before whose
\* normalized title is longer than 5 characters; every other entry with a
\* non-empty normalized title is kept, in input order.
C26_MergeSkipsOverlapping ==
  mg_pc = "done" => merge_out = KeptAsStated(1, {})

====
